---------------------------- MODULE Spec2Model ----------------------------
(***************************************************************************)
(* Flight tracking backend (cuaderno-api): the tracking rows, the poll     *)
(* cycle, registration, cancellation, the notification service and the     *)
(* polling calculation utilities.                                          *)
(*                                                                         *)
(* A request handler or job is one step, except where it waits between a   *)
(* read and the write that rests on it: registerFlightTracking between its  *)
(* findFirst and its create, processFlightPolling while the flight         *)
(* provider answers.  A database call takes effect when it is issued.      *)
(*                                                                         *)
(* Time is counted in whole seconds.  Every threshold of the source (6 h,  *)
(* 24 h, 168 h, 2 h, 10 min, the tier intervals and their 10% jitter) is a *)
(* whole number of seconds, so a comparison of fractional hours in the     *)
(* source is the same comparison of seconds here.                          *)
(***************************************************************************)
EXTENDS Integers, Sequences, FiniteSets, Bags, TLC

VARIABLES
    now,            \* the wall clock, Date.now() / DateTime.now()
    ticks,          \* how often the clock has advanced
    ops,            \* how many requests and jobs have been started
    trackings,      \* table flight_tracking: a sequence of rows, id = index
    notifications,  \* table notifications: a sequence of rows, id = index
    jobs,           \* queue 'flight-polling': waiting and delayed jobs
    reg,            \* registerFlightTracking calls in progress, per caller
    poll,           \* processFlightPolling calls in progress, per worker slot
    lastPoll,       \* the latest processFlightPolling call that has returned
    lastCancel,     \* the latest DELETE /trackings/:trackingId request
    cancelled,      \* ids of the trackings a cancel has returned true for
    prevReg,        \* the registration call completed before lastReg
    lastReg,        \* the latest completed registration call
    notifCall,      \* the latest createFlightUpdateNotifications call
    inbox,          \* the latest markNotificationsAsRead or cleanupOldNotifications call
    http,           \* the HTTP request on its way through a router
    sse,            \* the SSE connection
    health,         \* the /health request and the state of database and broker
    fnIn,           \* inputs of the polling utilities under evaluation
    fnOut,          \* their results
    jitterCall,     \* the applyJitter call under evaluation
    oneShot,        \* the flight-poll queue of the one-shot design and its worker's last run
    broker          \* the notification rows, the channels and the SSE streams

vars == <<now, ticks, ops, trackings, notifications, jobs, reg, poll, lastPoll,
          lastCancel,
          cancelled, prevReg, lastReg, notifCall, inbox, http, sse, health, fnIn,
          fnOut,
          jitterCall, oneShot, broker>>

---------------------------------------------------------------------------
(* Bounds of the model *)

MaxTicks == 2
MaxOps == 3
MaxTrackings == 2
MaxNotifications == 3
MaxJobs == 2

---------------------------------------------------------------------------
(* Values *)

NULL == "NULL"
NoTime == -1

HourSecs == 60 * 60

FlightStatus ==
    {"SCHEDULED", "DELAYED", "BOARDING", "DEPARTED", "ARRIVED", "CANCELLED",
     "DIVERTED"}

StopReason == {"DEPARTED", "CANCELLED", "TIMEOUT", "USER_CANCELLED"}

Min(a, b) == IF a <= b THEN a ELSE b
Max(a, b) == IF a >= b THEN a ELSE b
Abs(a) == IF a >= 0 THEN a ELSE 0 - a

RECURSIVE Pow(_, _)
Pow(b, e) == IF e = 0 THEN 1 ELSE b * Pow(b, e - 1)

---------------------------------------------------------------------------
(* Polling calculation utilities (utils/polling.ts) *)

POLLING_INTERVALS ==
    [sevenDaysOrMore |-> 6 * 60 * 60,
     lessThanSevenDays |-> 60 * 60,
     lessThan24Hours |-> 30 * 60,
     lessThan6Hours |-> 5 * 60]

\* JITTER_PERCENTAGE = 0.1, written in percent
JITTER_PERCENTAGE == 10
MAX_RETRIES == 5
BACKOFF_MULTIPLIER == 2
STOP_AFTER_DEPARTURE_HOURS == 2
BACKOFF_CAP_FACTOR == 8

\* nextDelayMs with boundaries that belong to the tier below
nextDelaySecsStrict(t, sched) ==
    LET diff == sched - t
        base == IF diff > 24 * 7 * HourSecs THEN 6 * 60
                ELSE IF diff > 24 * HourSecs THEN 60
                ELSE IF diff > 6 * HourSecs THEN 30
                ELSE 5
    IN  {Max(60, ((9 * base + 5) \div 10) * 60),
         Max(60, ((11 * base + 4) \div 10) * 60)}

\* nextDelayMs, in seconds: the tier in minutes, the jitter of 0.9 to 1.1
\* rounded to whole minutes (its two ends), the floor of one minute
nextDelaySecs(t, sched) ==
    LET diff == sched - t
        base == IF diff >= 24 * 7 * HourSecs THEN 6 * 60
                ELSE IF diff >= 24 * HourSecs THEN 60
                ELSE IF diff >= 6 * HourSecs THEN 30
                ELSE 5
    IN  {Max(60, ((9 * base + 5) \div 10) * 60),
         Max(60, ((11 * base + 4) \div 10) * 60)}

\* calculatePollingInterval with a boundary compared by > instead of >=
calculatePollingIntervalStrict(scheduledDeparture, t) ==
    LET secsUntilDeparture == scheduledDeparture - t
    IN  IF secsUntilDeparture > 7 * 24 * HourSecs
            THEN POLLING_INTERVALS.sevenDaysOrMore
        ELSE IF secsUntilDeparture > 24 * HourSecs
            THEN POLLING_INTERVALS.lessThanSevenDays
        ELSE IF secsUntilDeparture > 6 * HourSecs
            THEN POLLING_INTERVALS.lessThan24Hours
        ELSE POLLING_INTERVALS.lessThan6Hours

\* hoursUntilDeparture >= n  <=>  departure - now >= n hours in seconds
calculatePollingInterval(scheduledDeparture, t) ==
    LET secsUntilDeparture == scheduledDeparture - t
    IN  IF secsUntilDeparture >= 7 * 24 * HourSecs
            THEN POLLING_INTERVALS.sevenDaysOrMore
        ELSE IF secsUntilDeparture >= 24 * HourSecs
            THEN POLLING_INTERVALS.lessThanSevenDays
        ELSE IF secsUntilDeparture >= 6 * HourSecs
            THEN POLLING_INTERVALS.lessThan24Hours
        ELSE POLLING_INTERVALS.lessThan6Hours

\* applyJitter without the centring of Math.random(): the jitter lies in
\* [0, 2 * jitterRange)
applyJitterUncentred(interval, jitterPercentage) ==
    LET jitterRange == interval * jitterPercentage
    IN  ((interval * 100 + 50) \div 100)..((interval * 100 + 2 * jitterRange + 49) \div 100)

\* applyJitter(interval, jitterPercentage), the percentage written in
\* percent: Math.round(interval + jitter) for every real jitter in
\* [-jitterRange, jitterRange), jitterRange = interval * jitterPercentage.
\* Counted in hundredths of a second; Math.round(x) is floor(x + 0.5).
applyJitter(interval, jitterPercentage) ==
    LET jitterRange == interval * jitterPercentage
    IN  ((interval * 100 - jitterRange + 50) \div 100)
            ..((interval * 100 + jitterRange + 49) \div 100)

\* the least and the greatest result of applyJitter: the draws the model
\* follows
applyJitterEnds(interval, jitterPercentage) ==
    LET jitterRange == interval * jitterPercentage
    IN  {(interval * 100 - jitterRange + 50) \div 100,
         (interval * 100 + jitterRange + 49) \div 100}

\* calculateBackoffDelay without the cap of 8 times the base interval
calculateBackoffDelayUncapped(retryCount, baseInterval) ==
    baseInterval * Pow(BACKOFF_MULTIPLIER, retryCount)

calculateBackoffDelay(retryCount, baseInterval) ==
    Min(baseInterval * Pow(BACKOFF_MULTIPLIER, retryCount),
        baseInterval * BACKOFF_CAP_FACTOR)

\* shouldStopPolling with the timeout tested before the status
shouldStopPollingTimeoutFirst(scheduledDeparture, status, t) ==
    LET secsAfterDeparture == t - scheduledDeparture
    IN  IF secsAfterDeparture >= STOP_AFTER_DEPARTURE_HOURS * HourSecs
            THEN [shouldStop |-> TRUE, reason |-> "TIMEOUT"]
        ELSE IF status = "DEPARTED" \/ status = "CANCELLED"
            THEN [shouldStop |-> TRUE, reason |-> status]
        ELSE [shouldStop |-> FALSE, reason |-> NULL]

shouldStopPolling(scheduledDeparture, status, t) ==
    LET secsAfterDeparture == t - scheduledDeparture
    IN  IF status = "DEPARTED" \/ status = "CANCELLED"
            THEN [shouldStop |-> TRUE, reason |-> status]
        ELSE IF secsAfterDeparture >= STOP_AFTER_DEPARTURE_HOURS * HourSecs
            THEN [shouldStop |-> TRUE, reason |-> "TIMEOUT"]
        ELSE [shouldStop |-> FALSE, reason |-> NULL]

\* calculateNextPollDate: the set of dates one call can return
calculateNextPollDate(interval, retryCount, t) ==
    IF retryCount > 0
        THEN {t + calculateBackoffDelay(retryCount, interval)}
        ELSE {t + d : d \in applyJitterEnds(interval, JITTER_PERCENTAGE)}

---------------------------------------------------------------------------
(* Inputs of the model *)

Users == {"U1", "U2"}

\* the registerFlightTracking calls the model makes: the controller's call
\* (no options, so no trip) for a flight leaving in 3 h, by either user, and
\* a call with the options tripId and participants for a flight leaving in
\* 27 h
Requests ==
    {[userId |-> "U1", flightId |-> "F1", scheduledDeparture |-> 3 * HourSecs,
      tripId |-> "NULL", participants |-> << >>, viaController |-> TRUE],
     [userId |-> "U2", flightId |-> "F1", scheduledDeparture |-> 3 * HourSecs,
      tripId |-> "NULL", participants |-> << >>, viaController |-> TRUE],
     [userId |-> "U2", flightId |-> "F2", scheduledDeparture |-> 27 * HourSecs,
      tripId |-> "T1", participants |-> <<"U1", "U2">>, viaController |-> FALSE]}
ClockSteps == {3 * HourSecs, 24 * HourSecs}
RegCallers == {"r1", "r2"}
Pollers == {"w1"}

\* a value a caller leaves out (JavaScript undefined)
UNDEF == "UNDEF"

\* the flight data the provider is taken to answer with
ProviderData ==
    {[status |-> "SCHEDULED", gate |-> UNDEF, terminal |-> UNDEF, delay |-> 0],
     [status |-> "DELAYED", gate |-> "G1", terminal |-> UNDEF, delay |-> 10],
     [status |-> "CANCELLED", gate |-> UNDEF, terminal |-> UNDEF, delay |-> 0]}

\* getFlightData: { success, data?, error? }
NoData == [status |-> "SCHEDULED", gate |-> UNDEF, terminal |-> UNDEF, delay |-> 0]

ProviderResponses ==
    {[success |-> FALSE, data |-> NoData]}
        \cup {[success |-> TRUE, data |-> d] : d \in ProviderData}

TrackingIds == 1..Len(trackings)

---------------------------------------------------------------------------
(* Table flight_tracking *)

\* a create that leaves pollInterval to the default of the column
NewTrackingDefaultInterval(id, userId, tripId, flightId, scheduledDeparture, interval, nextPollAt) ==
    [id |-> id, createdByUserId |-> userId, tripId |-> tripId,
     flightId |-> flightId, scheduledDeparture |-> scheduledDeparture,
     status |-> "SCHEDULED", gate |-> NULL, terminal |-> NULL, delay |-> 0,
     isActive |-> TRUE, stopReason |-> NULL, lastPolledAt |-> NoTime,
     nextPollAt |-> nextPollAt, pollInterval |-> POLLING_INTERVALS.sevenDaysOrMore,
     retryCount |-> 0]

\* prisma.flightTracking.create in createSingleTracking; the columns
\* airline, flightNumber, origin and destination are copied through and
\* read by no decision, and are left out.
NewTracking(id, userId, tripId, flightId, scheduledDeparture, interval, nextPollAt) ==
    [id |-> id,
     createdByUserId |-> userId,
     tripId |-> tripId,
     flightId |-> flightId,
     scheduledDeparture |-> scheduledDeparture,
     status |-> "SCHEDULED",
     gate |-> NULL,
     terminal |-> NULL,
     delay |-> 0,
     isActive |-> TRUE,
     stopReason |-> NULL,
     lastPolledAt |-> NoTime,
     nextPollAt |-> nextPollAt,
     pollInterval |-> interval,
     retryCount |-> 0]

NoTracking ==
    [id |-> 0, createdByUserId |-> NULL, tripId |-> NULL, flightId |-> NULL,
     scheduledDeparture |-> 0, status |-> "SCHEDULED", gate |-> NULL,
     terminal |-> NULL, delay |-> 0, isActive |-> FALSE, stopReason |-> NULL,
     lastPolledAt |-> NoTime, nextPollAt |-> NoTime, pollInterval |-> 0,
     retryCount |-> 0]

\* a findFirst that finds no row
FindNoTracking(flightId, tripId) == {}

\* findFirst({ where: { flightId, tripId: tripId || null } }): the rows it
\* can return; without orderBy any matching row may come first.
FindByFlightTrip(flightId, tripId) ==
    {i \in TrackingIds :
        trackings[i].flightId = flightId /\ trackings[i].tripId = tripId}

\* The unique index over (flightId, tripId): a NULL tripId never conflicts.
UniqueViolation(flightId, tripId) ==
    tripId # NULL /\ FindByFlightTrip(flightId, tripId) # {}

\* A field given as undefined in a prisma update is left as it is.
SetField(old, new) == IF new = UNDEF THEN old ELSE new

---------------------------------------------------------------------------
(* Table notifications and the notification service *)

TitleUpcoming == "[plane] Proximo vuelo"
TitleStatus == "[status] Estado del vuelo actualizado"
TitleGate == "[gate] Cambio de puerta"
TitleTerminal == "[terminal] Cambio de terminal"
TitleDelayUp == "[clock] Retraso en el vuelo"
TitleDelayDown == "[ok] Mejora en el horario"

DEDUP_WINDOW_MINUTES == 10
DELAY_THRESHOLD_MINUTES == 5

NewNotification(userId, flightTrackingId, type, title, t) ==
    [userId |-> userId, flightTrackingId |-> flightTrackingId, type |-> type,
     title |-> title, isRead |-> FALSE, createdAt |-> t]

\* createUpcomingFlightNotification: the table after the call
createUpcomingFlightNotification(ns, userId, flightTrackingId, t) ==
    IF \E i \in 1..Len(ns) :
            /\ ns[i].userId = userId
            /\ ns[i].flightTrackingId = flightTrackingId
            /\ ns[i].title = TitleUpcoming
        THEN ns
        ELSE Append(ns, NewNotification(userId, flightTrackingId,
                                        "STATUS_CHANGE", TitleUpcoming, t))

\* createFlightChangeNotification without the look-up of a recent one
createFlightChangeNotificationNoDedup(ns, userId, flightTrackingId, type, title, t) ==
    Append(ns, NewNotification(userId, flightTrackingId, type, title, t))

\* createFlightChangeNotification: the table after the call
createFlightChangeNotification(ns, userId, flightTrackingId, type, title, t) ==
    LET recentCutoff == t - DEDUP_WINDOW_MINUTES * 60
    IN  IF \E i \in 1..Len(ns) :
                /\ ns[i].userId = userId
                /\ ns[i].flightTrackingId = flightTrackingId
                /\ ns[i].type = type
                /\ ns[i].title = title
                /\ ns[i].createdAt >= recentCutoff
            THEN ns
            ELSE Append(ns, NewNotification(userId, flightTrackingId, type, title, t))

\* a value JavaScript takes as true in a condition: neither undefined, null
\* nor the empty string
Truthy(v) == v # UNDEF /\ v # NULL /\ v # ""

\* createFlightUpdateNotifications: the table after the call; the
\* notifications it returns are the rows it appended.
createFlightUpdateNotifications(ns, userId, flightTrackingId, oldData, newData, t) ==
    LET n1 == IF oldData.status # newData.status
                  THEN createFlightChangeNotification(ns, userId, flightTrackingId,
                           "STATUS_CHANGE", TitleStatus, t)
                  ELSE ns
        n2 == IF oldData.gate # newData.gate /\ Truthy(newData.gate)
                  THEN createFlightChangeNotification(n1, userId, flightTrackingId,
                           "GATE_CHANGE", TitleGate, t)
                  ELSE n1
        n3 == IF oldData.terminal # newData.terminal /\ Truthy(newData.terminal)
                  THEN createFlightChangeNotification(n2, userId, flightTrackingId,
                           "TERMINAL_CHANGE", TitleTerminal, t)
                  ELSE n2
        delayDiff == Abs(newData.delay - oldData.delay)
        isIncrease == newData.delay > oldData.delay
        n4 == IF delayDiff >= DELAY_THRESHOLD_MINUTES
                  THEN createFlightChangeNotification(n3, userId, flightTrackingId,
                           "DELAY_CHANGE",
                           IF isIncrease THEN TitleDelayUp ELSE TitleDelayDown, t)
                  ELSE n3
    IN  n4

\* generateNotificationContent: the title of a legacy notification
generateNotificationTitle(change) ==
    CASE change.type = "STATUS_CHANGE" -> "Estado del vuelo actualizado"
      [] change.type = "GATE_CHANGE" -> "Cambio de puerta"
      [] change.type = "TERMINAL_CHANGE" -> "Cambio de terminal"
      [] change.type = "DELAY_CHANGE" ->
            IF change.newValue - change.oldValue > 0
                THEN "Retraso en el vuelo"
                ELSE "Mejora en el horario"
      [] change.type = "FLIGHT_CANCELLED" -> "Vuelo cancelado"
      [] OTHER -> "Actualizacion del vuelo"

\* createNotificationsForChanges with the look-up of the last 10 minutes
RECURSIVE createNotificationsForChangesDeduped(_, _, _, _, _)
createNotificationsForChangesDeduped(ns, userId, flightTrackingId, changes, t) ==
    IF changes = << >>
        THEN ns
        ELSE createNotificationsForChangesDeduped(
                 createFlightChangeNotification(ns, userId, flightTrackingId,
                     Head(changes).type,
                     generateNotificationTitle(Head(changes)), t),
                 userId, flightTrackingId, Tail(changes), t)

\* createNotificationsForChanges: one row per change, no look-up
RECURSIVE createNotificationsForChanges(_, _, _, _, _)
createNotificationsForChanges(ns, userId, flightTrackingId, changes, t) ==
    IF changes = << >>
        THEN ns
        ELSE createNotificationsForChanges(
                 Append(ns, NewNotification(userId, flightTrackingId,
                            Head(changes).type,
                            generateNotificationTitle(Head(changes)), t)),
                 userId, flightTrackingId, Tail(changes), t)

\* markNotificationsAsRead whose where clause leaves out userId
markNotificationsAsReadAnyUser(ns, userId, notificationIds) ==
    [i \in 1..Len(ns) |->
        IF i \in notificationIds /\ ~ns[i].isRead
            THEN [ns[i] EXCEPT !.isRead = TRUE]
            ELSE ns[i]]

\* markNotificationsAsRead: the table after the updateMany; a row is named
\* by its place in the table
markNotificationsAsRead(ns, userId, notificationIds) ==
    [i \in 1..Len(ns) |->
        IF i \in notificationIds /\ ns[i].userId = userId /\ ~ns[i].isRead
            THEN [ns[i] EXCEPT !.isRead = TRUE]
            ELSE ns[i]]

\* cleanupOldNotifications whose where clause leaves out isRead
cleanupOldNotificationsUnreadToo(ns, olderThanDays, t) ==
    LET cutoffDate == t - olderThanDays * 24 * HourSecs
        Stays(n) == ~(n.createdAt < cutoffDate)
    IN  SelectSeq(ns, Stays)

\* cleanupOldNotifications: the table after the deleteMany.  setDate moves
\* the cutoff back by calendar days, counted here as 24 hours each
cleanupOldNotifications(ns, olderThanDays, t) ==
    LET cutoffDate == t - olderThanDays * 24 * HourSecs
        Stays(n) == ~(n.createdAt < cutoffDate /\ n.isRead)
    IN  SelectSeq(ns, Stays)

---------------------------------------------------------------------------
(* Flight tracking service: change detection and the row updates *)

\* detectFlightChanges: the list of changes, in the order of the source
detectFlightChanges(currentTracking, newData) ==
    LET delayDifference == Abs(newData.delay - currentTracking.delay)
        c1 == IF currentTracking.status # newData.status
                  THEN <<[type |-> "STATUS_CHANGE", oldValue |-> 0, newValue |-> 0]>>
                  ELSE << >>
        c2 == IF currentTracking.gate # newData.gate
                  THEN <<[type |-> "GATE_CHANGE", oldValue |-> 0, newValue |-> 0]>>
                  ELSE << >>
        c3 == IF currentTracking.terminal # newData.terminal
                  THEN <<[type |-> "TERMINAL_CHANGE", oldValue |-> 0, newValue |-> 0]>>
                  ELSE << >>
        c4 == IF delayDifference >= DELAY_THRESHOLD_MINUTES
                  THEN <<[type |-> "DELAY_CHANGE",
                          oldValue |-> currentTracking.delay,
                          newValue |-> newData.delay]>>
                  ELSE << >>
        c5 == IF newData.status = "CANCELLED" /\ currentTracking.status # "CANCELLED"
                  THEN <<[type |-> "FLIGHT_CANCELLED", oldValue |-> 0, newValue |-> 0]>>
                  ELSE << >>
    IN  c1 \o c2 \o c3 \o c4 \o c5

\* updateFlightTracking without the write of nextPollAt
updateFlightTrackingKeepingNextPoll(row, newData, nextPollAt, t) ==
    [row EXCEPT
        !.status = newData.status,
        !.gate = SetField(@, newData.gate),
        !.terminal = SetField(@, newData.terminal),
        !.delay = newData.delay,
        !.lastPolledAt = t,
        !.pollInterval = calculatePollingInterval(row.scheduledDeparture, t),
        !.retryCount = 0]

\* updateFlightTracking: the row after the update, given the date drawn
\* by calculateNextPollDate
updateFlightTracking(row, newData, nextPollAt, t) ==
    [row EXCEPT
        !.status = newData.status,
        !.gate = SetField(@, newData.gate),
        !.terminal = SetField(@, newData.terminal),
        !.delay = newData.delay,
        !.lastPolledAt = t,
        !.nextPollAt = nextPollAt,
        !.pollInterval = calculatePollingInterval(row.scheduledDeparture, t),
        !.retryCount = 0]

\* handlePollingError without the write of nextPollAt
handlePollingErrorKeepingNextPoll(row, tracking, nextPollAt, t) ==
    LET newRetryCount == tracking.retryCount + 1
    IN  IF newRetryCount > MAX_RETRIES
            THEN [row EXCEPT !.retryCount = 0]
            ELSE [row EXCEPT !.retryCount = newRetryCount]

\* handlePollingError without the reset after MAX_RETRIES
handlePollingErrorNoReset(row, tracking, nextPollAt, t) ==
    [row EXCEPT
        !.retryCount = tracking.retryCount + 1,
        !.nextPollAt = nextPollAt]

\* handlePollingError(tracking): the row after the update; tracking is the
\* row as the poll cycle read it, row the row as it is stored now.
handlePollingError(row, tracking, nextPollAt, t) ==
    LET newRetryCount == tracking.retryCount + 1
    IN  IF newRetryCount > MAX_RETRIES
            THEN [row EXCEPT
                    !.retryCount = 0,
                    !.nextPollAt = nextPollAt,
                    !.pollInterval =
                        calculatePollingInterval(tracking.scheduledDeparture, t)]
            ELSE [row EXCEPT
                    !.retryCount = newRetryCount,
                    !.nextPollAt = nextPollAt]

\* the dates handlePollingError can draw for nextPollAt
handlePollingErrorDates(tracking, t) ==
    LET newRetryCount == tracking.retryCount + 1
    IN  IF newRetryCount > MAX_RETRIES
            THEN calculateNextPollDate(
                     calculatePollingInterval(tracking.scheduledDeparture, t), 0, t)
            ELSE calculateNextPollDate(tracking.pollInterval, newRetryCount, t)

\* stopFlightTracking that records the reason only
stopFlightTrackingKeepingActive(row, reason) ==
    [row EXCEPT !.stopReason = reason]

\* stopFlightTracking that clears the active flag only
stopFlightTrackingWithoutReason(row, reason) ==
    [row EXCEPT !.isActive = FALSE]

\* stopFlightTracking
stopFlightTracking(row, reason) ==
    [row EXCEPT !.isActive = FALSE, !.stopReason = reason]

\* cancelFlightTracking with the owner left out of the where clause
cancelMatchesAnyOwner(userId, trackingId) ==
    /\ trackingId \in TrackingIds
    /\ trackings[trackingId].isActive

\* cancelFlightTracking with isActive left out of the where clause
cancelMatchesInactive(userId, trackingId) ==
    /\ trackingId \in TrackingIds
    /\ trackings[trackingId].createdByUserId = userId

\* cancelFlightTracking: the rows updateMany matches
cancelMatches(userId, trackingId) ==
    /\ trackingId \in TrackingIds
    /\ trackings[trackingId].createdByUserId = userId
    /\ trackings[trackingId].isActive

---------------------------------------------------------------------------
(* Process states *)

IdleReg ==
    [pc |-> "idle", userId |-> NULL, flightId |-> NULL, dep |-> 0,
     tripId |-> NULL, todo |-> << >>, got |-> << >>, viaController |-> FALSE]

IdlePoll ==
    [pc |-> "idle", id |-> 0, forced |-> FALSE, snap |-> NoTracking,
     due |-> FALSE, hsecs |-> 0]

NoPoll ==
    [n |-> 0, id |-> 0, forced |-> FALSE, due |-> FALSE, outcome |-> NULL,
     oldStatus |-> NULL, newStatus |-> NULL, before |-> NoTime, row |-> NoTracking]

NoCancel == [n |-> 0, userId |-> NULL, id |-> 0, result |-> FALSE]

NoReg == [userId |-> NULL, flightId |-> NULL, tripId |-> NULL, id |-> 0, count |-> 0]

NoSnapshot == [status |-> "SCHEDULED", gate |-> UNDEF, terminal |-> UNDEF, delay |-> 0]

NoNotifCall ==
    [seq |-> 0, userId |-> NULL, id |-> 0, old |-> NoSnapshot, new |-> NoSnapshot,
     at |-> 0, created |-> 0, fresh |-> FALSE, repeat |-> FALSE]

NoFnIn == [dep |-> 0, t |-> 0, status |-> "SCHEDULED", retryCount |-> 0, base |-> 0]

NoFnOut ==
    [done |-> FALSE, interval |-> 0, stop |-> [shouldStop |-> FALSE, reason |-> NULL],
     backoff |-> 0, backoffNext |-> 0, nextPoll |-> {}, delay |-> {}]

NoInboxCall ==
    [n |-> 0, op |-> NULL, userId |-> NULL, ids |-> {}, olderThanDays |-> 0,
     count |-> 0, after |-> << >>]

NoHttp ==
    [pc |-> "idle", n |-> 0, router |-> NULL, method |-> NULL, path |-> << >>,
     authorization |-> << >>, bodyValid |-> FALSE, layer |-> 0, fn |-> 0,
     userId |-> UNDEF, status |-> 0, handler |-> NULL]

NoSse ==
    [pc |-> "idle", status |-> 0, userId |-> UNDEF, clientGone |-> FALSE,
     subscriberVar |-> FALSE, subscriber |-> "none", subscribed |-> FALSE,
     heartbeatVar |-> FALSE, heartbeat |-> "none", unsubscribes |-> 0,
     disconnects |-> 0, fired |-> << >>, lost |-> 0, beats |-> 0,
     beatsAfterClose |-> 0]

NoHealth ==
    [pc |-> "idle", n |-> 0, entry |-> NULL, dbUp |-> TRUE, redisUp |-> TRUE,
     flips |-> 0, dbOk |-> FALSE, redisOk |-> FALSE, status |-> 0]

NoJitterCall == [done |-> FALSE, interval |-> 0, jitterPercentage |-> 0, results |-> {}]

\* no notification created, no stream opened
NoBroker ==
    [rows |-> << >>, published |-> {}, inflight |-> {}, pushes |-> 0,
     streams |-> [s \in {"s1", "s2"} |->
                     [pc |-> "idle", userId |-> "NULL", written |-> << >>]],
     last |-> [n |-> 0, id |-> 0, brokerUp |-> TRUE, pushUp |-> TRUE,
               outcome |-> "none", cycle |-> "none"]]

\* the flight-poll queue when empty, before any run of pollWorker
NoOneShot ==
    [nextId |-> 1, delayed |-> {}, ended |-> {}, inactive |-> {}, failures |-> 0,
     last |-> [n |-> 0, job |-> 0, chain |-> 0, trackingId |-> 0, scheduledAt |-> 0,
               at |-> 0, decision |-> "none"]]

Init ==
    /\ now = 0
    /\ ticks = 0
    /\ ops = 0
    /\ trackings = << >>
    /\ notifications = << >>
    /\ jobs = EmptyBag
    /\ reg = [c \in RegCallers |-> IdleReg]
    /\ poll = [w \in Pollers |-> IdlePoll]
    /\ lastPoll = NoPoll
    /\ lastCancel = NoCancel
    /\ cancelled = {}
    /\ prevReg = NoReg
    /\ lastReg = NoReg
    /\ notifCall = NoNotifCall
    /\ inbox = NoInboxCall
    /\ http = NoHttp
    /\ sse = NoSse
    /\ health = NoHealth
    /\ fnIn = NoFnIn
    /\ fnOut = NoFnOut
    /\ jitterCall = NoJitterCall
    /\ oneShot = NoOneShot
    /\ broker = NoBroker

\* the variables of the specifications that stand apart from the tracking
\* system
pureVars == <<fnIn, fnOut, jitterCall, http, sse, health, oneShot, broker>>
histVars == <<prevReg, lastReg>>

\* a request arrives or a job is taken
Begin == ops < MaxOps /\ ops' = ops + 1

\* the clock advances
Tick ==
    /\ ticks < MaxTicks
    /\ \E d \in ClockSteps : now' = now + d
    /\ ticks' = ticks + 1
    /\ UNCHANGED <<ops, trackings, notifications, jobs, reg, poll, lastPoll,
                   lastCancel, cancelled, histVars, notifCall, inbox,
                   pureVars>>

---------------------------------------------------------------------------
(* registerFlightTracking / createSingleTracking, and the controller's     *)
(* scheduling of the first polling job.  A call interleaves with the other *)
(* requests between its findFirst and its create.                          *)

restReg == <<now, ticks, poll, lastPoll, lastCancel, cancelled, notifCall, inbox,
                   pureVars>>
otherVarsReg == <<ops, restReg>>

\* the tracking registerFlightTracking returns: the caller's own, else the
\* first of the list
ReturnedTracking(userId, got) ==
    IF \E k \in 1..Len(got) : trackings'[got[k]].createdByUserId = userId
        THEN got[CHOOSE k \in 1..Len(got) :
                    /\ trackings'[got[k]].createdByUserId = userId
                    /\ \A m \in 1..(k - 1) : trackings'[got[m]].createdByUserId # userId]
        ELSE got[1]

\* createSingleTracking has returned tracking id for the participant at the
\* head of todo: the loop goes on, or the service call returns and the
\* controller, when the call is its own, schedules the first polling job
\* with the delay of a date it draws itself.
RegAdvance(c, id) ==
    LET r == reg[c]
        got == Append(r.got, id)
        rest == Tail(r.todo)
        interval == calculatePollingInterval(r.dep, now)
    IN  IF rest # << >>
            THEN /\ reg' = [reg EXCEPT ![c] =
                        [r EXCEPT !.pc = "find", !.todo = rest, !.got = got]]
                 /\ UNCHANGED <<jobs, histVars>>
            ELSE LET result == ReturnedTracking(r.userId, got)
                 IN  /\ reg' = [reg EXCEPT ![c] = IdleReg]
                     /\ prevReg' = lastReg
                     /\ lastReg' = [userId |-> r.userId, flightId |-> r.flightId,
                                    tripId |-> r.tripId, id |-> result,
                                    count |-> Len(trackings')]
                     /\ IF r.viaController
                            THEN /\ BagCardinality(jobs) < MaxJobs
                                 /\ \E nextPollAt \in calculateNextPollDate(interval, 0, now) :
                                     jobs' = jobs (+) SetToBag(
                                         {[trackingId |-> result,
                                           runAt |-> now + Max(0, nextPollAt - now)]})
                            ELSE UNCHANGED jobs

\* the call begins: with a tripId and participants one tracking per
\* participant is asked for, else one for the caller
RegStartWith(c, userId, flightId, dep, tripId, participants, viaController) ==
    /\ reg[c].pc = "idle"
    /\ Begin
    /\ reg' = [reg EXCEPT ![c] =
            [pc |-> "find", userId |-> userId, flightId |-> flightId,
             dep |-> dep, tripId |-> tripId,
             todo |-> IF tripId # NULL /\ Len(participants) > 0
                          THEN participants
                          ELSE <<userId>>,
             got |-> << >>, viaController |-> viaController]]
    /\ UNCHANGED <<trackings, notifications, jobs, histVars, restReg>>

RegStart(c) ==
    \E q \in Requests :
        RegStartWith(c, q.userId, q.flightId, q.scheduledDeparture, q.tripId,
                     q.participants, q.viaController)

\* a call begins while no other registerFlightTracking call is running
RegStartAlone(c) ==
    /\ \A o \in RegCallers \ {c} : reg[o].pc = "idle"
    /\ RegStart(c)

\* prisma.flightTracking.findFirst
RegFind(c) ==
    LET r == reg[c]
        matches == FindByFlightTrip(r.flightId, r.tripId)
    IN  /\ r.pc = "find"
        /\ UNCHANGED <<trackings, notifications, otherVarsReg>>
        /\ \E existing \in (IF matches = {} THEN {0} ELSE matches) :
            IF existing = 0
                THEN /\ reg' = [reg EXCEPT ![c].pc = "create"]
                     /\ UNCHANGED <<jobs, histVars>>
                ELSE RegAdvance(c, existing)

\* prisma.flightTracking.create, then the test of the 6 hour threshold and
\* notificationService.createUpcomingFlightNotification for the new row
RegCreate(c) ==
    LET r == reg[c]
        participant == Head(r.todo)
        interval == calculatePollingInterval(r.dep, now)
        id == Len(trackings) + 1
        secsUntilDeparture == r.dep - now
        ns == IF secsUntilDeparture <= 6 * HourSecs /\ secsUntilDeparture > 0
                  THEN createUpcomingFlightNotification(notifications, participant,
                                                        id, now)
                  ELSE notifications
    IN  /\ r.pc = "create"
        /\ Len(trackings) < MaxTrackings
        /\ Len(ns) <= MaxNotifications
        /\ UNCHANGED otherVarsReg
        /\ IF UniqueViolation(r.flightId, r.tripId)
               THEN \* create throws, the whole call rejects
                    /\ reg' = [reg EXCEPT ![c] = IdleReg]
                    /\ UNCHANGED <<trackings, notifications, jobs, histVars>>
               ELSE \E nextPollAt \in calculateNextPollDate(interval, 0, now) :
                    /\ trackings' = Append(trackings,
                           NewTracking(id, participant, r.tripId, r.flightId,
                                       r.dep, interval, nextPollAt))
                    /\ notifications' = ns
                    /\ RegAdvance(c, id)

---------------------------------------------------------------------------
(* processFlightPolling and what follows it: run by the worker of the      *)
(* queue, which then sweeps the ready trackings, or by the route           *)
(* POST /debug/force-poll/:trackingId, which then adds a job with delay 0. *)
(* A poll interleaves with the other requests while it waits for the       *)
(* flight provider.                                                        *)

\* prisma.flightTracking.findUnique({ where: { id } })
findUnique(id) == IF id \in TrackingIds THEN trackings[id] ELSE NoTracking

\* the test that skips missing rows only
pollSkipsMissing(tracking) == tracking = NoTracking

\* !tracking || !tracking.isActive
pollSkips(tracking) == tracking = NoTracking \/ ~tracking.isActive

restPoll == <<now, ticks, reg, lastCancel, cancelled, histVars, notifCall, inbox,
                   pureVars>>

\* getFlightsReadyForPolling on the table tr
FlightsReadyForPolling(tr) ==
    {i \in 1..Len(tr) : tr[i].isActive /\ tr[i].nextPollAt <= now}

\* the jobs added once processFlightPolling has returned: the worker's
\* schedulePollingJobs, or the route's scheduleFlightPollingJob with delay 0
JobsAddedAfterPoll(id, forced, tr) ==
    IF forced
        THEN SetToBag({[trackingId |-> id, runAt |-> now]})
        ELSE SetToBag({[trackingId |-> i,
                        runAt |-> now + Max(0, tr[i].nextPollAt - now)]
                       : i \in FlightsReadyForPolling(tr)})

\* processFlightPolling returns, leaving the table tr, and the caller adds
\* its jobs to the queue js
PollReturn(w, id, forced, due, outcome, oldStatus, newStatus, before, js, tr) ==
    /\ BagCardinality(js (+) JobsAddedAfterPoll(id, forced, tr)) <= MaxJobs
    /\ trackings' = tr
    /\ jobs' = js (+) JobsAddedAfterPoll(id, forced, tr)
    /\ poll' = [poll EXCEPT ![w] = IdlePoll]
    /\ lastPoll' = [n |-> lastPoll.n + 1, id |-> id, forced |-> forced, due |-> due,
                    outcome |-> outcome, oldStatus |-> oldStatus,
                    newStatus |-> newStatus, before |-> before,
                    row |-> IF id \in 1..Len(tr) THEN tr[id] ELSE NoTracking]

\* processFlightPolling up to the call of the provider: findUnique, the
\* notification of the crossed 6 hour threshold, shouldStopPolling
PollBegin(w, id, forced, js) ==
    LET tracking == findUnique(id)
        secsUntilDeparture == tracking.scheduledDeparture - now
        wasOver6h == tracking.pollInterval = 6 * 60 * 60
                        \/ tracking.pollInterval = 1 * 60 * 60
        isNowUnder6h == secsUntilDeparture <= 6 * HourSecs
        ns == IF ~pollSkips(tracking) /\ wasOver6h /\ isNowUnder6h
                    /\ secsUntilDeparture > 0
                  THEN createUpcomingFlightNotification(notifications,
                           tracking.createdByUserId, id, now)
                  ELSE notifications
        stopCheck == shouldStopPolling(tracking.scheduledDeparture,
                                       tracking.status, now)
    IN  /\ Len(ns) <= MaxNotifications
        /\ notifications' = ns
        /\ IF pollSkips(tracking)
               THEN PollReturn(w, id, forced, FALSE, "skipped", tracking.status,
                               NULL, tracking.nextPollAt, js, trackings)
           ELSE IF stopCheck.shouldStop
               THEN PollReturn(w, id, forced, tracking.nextPollAt <= now, "stopped",
                               tracking.status, NULL, tracking.nextPollAt, js,
                               [trackings EXCEPT
                                   ![id] = stopFlightTracking(@, stopCheck.reason)])
           ELSE /\ poll' = [poll EXCEPT ![w] =
                        [pc |-> "provider", id |-> id, forced |-> forced,
                         snap |-> tracking, due |-> (tracking.nextPollAt <= now),
                         hsecs |-> secsUntilDeparture]]
                /\ jobs' = js
                /\ UNCHANGED <<trackings, lastPoll>>
        /\ UNCHANGED restPoll

\* the worker takes a job whose delay has passed
JobStart(w) ==
    /\ poll[w].pc = "idle"
    /\ Begin
    /\ \E j \in BagToSet(jobs) :
        /\ j.runAt <= now
        /\ PollBegin(w, j.trackingId, FALSE, jobs (-) SetToBag({j}))

\* the debug route: findUnique finds the tracking, then the poll is run
ForceStart(w) ==
    /\ poll[w].pc = "idle"
    /\ Begin
    /\ \E id \in TrackingIds : PollBegin(w, id, TRUE, jobs)

\* flightProvider.getFlightData answers: handlePollingError on a failure,
\* else the notifications (the field-by-field path within 6 h before to 2 h
\* after the departure, else the legacy path) and updateFlightTracking
PollRespond(w) ==
    LET p == poll[w]
        oldData == [status |-> p.snap.status,
                    gate |-> IF Truthy(p.snap.gate) THEN p.snap.gate ELSE UNDEF,
                    terminal |-> IF Truthy(p.snap.terminal)
                                     THEN p.snap.terminal ELSE UNDEF,
                    delay |-> p.snap.delay]
        newInterval == calculatePollingInterval(p.snap.scheduledDeparture, now)
    IN  /\ p.pc = "provider"
        /\ UNCHANGED <<ops, restPoll>>
        /\ \E response \in ProviderResponses :
            LET changes == detectFlightChanges(p.snap, response.data)
                ns == IF p.hsecs <= 6 * HourSecs /\ p.hsecs >= 0 - 2 * HourSecs
                          THEN createFlightUpdateNotifications(notifications,
                                   p.snap.createdByUserId, p.id, oldData,
                                   response.data, now)
                      ELSE IF changes # << >>
                          THEN createNotificationsForChanges(notifications,
                                   p.snap.createdByUserId, p.id, changes, now)
                      ELSE notifications
            IN  IF ~response.success
                    THEN /\ UNCHANGED notifications
                         /\ \E nextPollAt \in handlePollingErrorDates(p.snap, now) :
                             PollReturn(w, p.id, p.forced, p.due, "failure",
                                 p.snap.status, NULL, p.snap.nextPollAt, jobs,
                                 [trackings EXCEPT ![p.id] =
                                     handlePollingError(@, p.snap, nextPollAt, now)])
                    ELSE /\ Len(ns) <= MaxNotifications
                         /\ notifications' = ns
                         /\ \E nextPollAt \in calculateNextPollDate(newInterval, 0, now) :
                             PollReturn(w, p.id, p.forced, p.due, "success",
                                 p.snap.status, response.data.status,
                                 p.snap.nextPollAt, jobs,
                                 [trackings EXCEPT ![p.id] =
                                     updateFlightTracking(@, response.data,
                                                          nextPollAt, now)])

---------------------------------------------------------------------------
(* DELETE /trackings/:trackingId: cancelFlightTracking, then the 404 or    *)
(* jobManager.cancelJobsForTracking.                                       *)

restCancel == <<now, ticks, notifications, reg, poll, lastPoll, histVars, notifCall, inbox,
                pureVars>>

\* cancelJobsForTracking: the queue without the jobs of the tracking
cancelJobsForTracking(js, trackingId) ==
    [j \in {k \in BagToSet(js) : k.trackingId # trackingId} |-> js[j]]

CancelRequest ==
    /\ Begin
    /\ \E userId \in Users, trackingId \in 1..(Len(trackings) + 1) :
        LET hit == cancelMatches(userId, trackingId)
        IN  /\ trackings' = IF hit
                   THEN [trackings EXCEPT ![trackingId] =
                            [@ EXCEPT !.isActive = FALSE,
                                      !.stopReason = "USER_CANCELLED"]]
                   ELSE trackings
            /\ jobs' = IF hit THEN cancelJobsForTracking(jobs, trackingId) ELSE jobs
            /\ lastCancel' = [n |-> lastCancel.n + 1, userId |-> userId,
                              id |-> trackingId, result |-> hit]
            /\ cancelled' = IF hit THEN cancelled \cup {trackingId} ELSE cancelled
    /\ UNCHANGED restCancel

---------------------------------------------------------------------------
(* The full system *)

Next ==
    \/ Tick
    \/ \E c \in RegCallers : RegStart(c) \/ RegFind(c) \/ RegCreate(c)
    \/ \E w \in Pollers : JobStart(w) \/ ForceStart(w) \/ PollRespond(w)
    \/ CancelRequest

Spec == Init /\ [][Next]_vars

---------------------------------------------------------------------------
(* The requests and the worker, entered while a first                      *)
(* registerFlightTracking call is between its entry and its findFirst.     *)

InitAbsorb ==
    /\ now = 0
    /\ ticks = 0
    /\ ops = 0
    /\ trackings = << >>
    /\ notifications = << >>
    /\ jobs = EmptyBag
    /\ reg = [c \in RegCallers |->
                IF c = "r1"
                    THEN [pc |-> "find", userId |-> "U1", flightId |-> "F1",
                          dep |-> 3 * HourSecs, tripId |-> NULL,
                          todo |-> <<"U1">>, got |-> << >>,
                          viaController |-> TRUE]
                    ELSE IdleReg]
    /\ poll = [w \in Pollers |-> IdlePoll]
    /\ lastPoll = NoPoll
    /\ lastCancel = NoCancel
    /\ cancelled = {}
    /\ prevReg = NoReg
    /\ lastReg = NoReg
    /\ notifCall = NoNotifCall
    /\ inbox = NoInboxCall
    /\ http = NoHttp
    /\ sse = NoSse
    /\ health = NoHealth
    /\ fnIn = NoFnIn
    /\ fnOut = NoFnOut
    /\ jitterCall = NoJitterCall
    /\ oneShot = NoOneShot
    /\ broker = NoBroker

\* every request and the worker, at one instant of the clock
NextAbsorb ==
    \/ \E c \in RegCallers : RegStart(c) \/ RegFind(c) \/ RegCreate(c)
    \/ \E w \in Pollers : JobStart(w) \/ ForceStart(w) \/ PollRespond(w)
    \/ CancelRequest

SpecAbsorb == InitAbsorb /\ [][NextAbsorb]_vars

\* the same system with the registerFlightTracking calls one after another
NextSeq ==
    \/ Tick
    \/ \E c \in RegCallers : RegStartAlone(c) \/ RegFind(c) \/ RegCreate(c)
    \/ \E w \in Pollers : JobStart(w) \/ ForceStart(w) \/ PollRespond(w)
    \/ CancelRequest

SpecSeq == Init /\ [][NextSeq]_vars

---------------------------------------------------------------------------
(* The polling calculation utilities on their own: one evaluation of them *)
(* on one input.                                                           *)

MaxRetryCount == 6

\* seconds from now to the scheduled departure: around every tier boundary,
\* around the end of the 2 hours after the departure, and the examples of
\* 8 days, 2 days, 8 hours and 2 hours
SecsUntilDeparture ==
    {0 - 3 * HourSecs, 0 - 2 * HourSecs - 1, 0 - 2 * HourSecs, 0 - 2 * HourSecs + 1,
     0, 2 * HourSecs, 6 * HourSecs - 1, 6 * HourSecs, 8 * HourSecs,
     24 * HourSecs - 1, 24 * HourSecs, 48 * HourSecs, 168 * HourSecs - 1,
     168 * HourSecs, 192 * HourSecs}

EvalTimes == {0, 25 * HourSecs}
BaseIntervals == {POLLING_INTERVALS.lessThan6Hours, POLLING_INTERVALS.lessThanSevenDays}

sysVars == <<now, ticks, ops, trackings, notifications, jobs, reg, poll, lastPoll,
             lastCancel, cancelled, histVars>>

EvalPolling ==
    /\ ~fnOut.done
    /\ \E u \in SecsUntilDeparture, t \in EvalTimes, status \in FlightStatus,
          retryCount \in 0..MaxRetryCount, base \in BaseIntervals :
        /\ fnIn' = [dep |-> t + u, t |-> t, status |-> status,
                    retryCount |-> retryCount, base |-> base]
        /\ fnOut' = [done |-> TRUE,
                     interval |-> calculatePollingInterval(t + u, t),
                     stop |-> shouldStopPolling(t + u, status, t),
                     backoff |-> calculateBackoffDelay(retryCount, base),
                     backoffNext |-> calculateBackoffDelay(retryCount + 1, base),
                     nextPoll |-> calculateNextPollDate(base, retryCount, t),
                     delay |-> nextDelaySecs(t, t + u)]
    /\ UNCHANGED <<sysVars, notifCall, inbox, jitterCall, http, sse, health, oneShot, broker>>

SpecPure == Init /\ [][EvalPolling]_vars

---------------------------------------------------------------------------
(* applyJitter on its own: one evaluation on one interval and percentage.  *)

MaxSmallInterval == 40

JitterIntervals == (0..MaxSmallInterval) \cup BaseIntervals \cup {POLLING_INTERVALS.sevenDaysOrMore}
JitterPercentages == {0, 10, 25, 50, 100}

EvalJitter ==
    /\ ~jitterCall.done
    /\ \E interval \in JitterIntervals, jitterPercentage \in JitterPercentages :
        jitterCall' = [done |-> TRUE, interval |-> interval,
                       jitterPercentage |-> jitterPercentage,
                       results |-> applyJitter(interval, jitterPercentage)]
    /\ UNCHANGED <<sysVars, notifCall, inbox, fnIn, fnOut, http, sse, health, oneShot, broker>>

SpecJitter == Init /\ [][EvalJitter]_vars

---------------------------------------------------------------------------
(* The notification service on its own: calls of                           *)
(* createFlightUpdateNotifications for one user and tracking, as           *)
(* POST /api/notifications/test and the poll cycle make them, while the    *)
(* clock advances.                                                         *)

MaxNotifCalls == 3

NotifClockSteps == {5 * 60, 10 * 60 + 1}

OldSnapshots ==
    {[status |-> "SCHEDULED", gate |-> "G1", terminal |-> "T1", delay |-> 0],
     [status |-> "DELAYED", gate |-> UNDEF, terminal |-> "T1", delay |-> 10]}

NewSnapshots ==
    [status : {"SCHEDULED", "DELAYED"}, gate : {UNDEF, "G1", "G2"},
     terminal : {UNDEF, "T1"}, delay : {0, 3, 10}]

\* the rows of ns of the user and tracking created at or after time t
RecentNotifications(ns, userId, flightTrackingId, t) ==
    {i \in 1..Len(ns) :
        /\ ns[i].userId = userId
        /\ ns[i].flightTrackingId = flightTrackingId
        /\ ns[i].createdAt >= t}

NotifTick ==
    /\ ticks < MaxTicks
    /\ \E d \in NotifClockSteps : now' = now + d
    /\ ticks' = ticks + 1
    /\ UNCHANGED <<ops, trackings, notifications, jobs, reg, poll, lastPoll,
                   lastCancel, cancelled, histVars, notifCall, inbox,
                   pureVars>>

NotifCall ==
    /\ notifCall.seq < MaxNotifCalls
    /\ \E old \in OldSnapshots, new \in NewSnapshots :
        LET ns == createFlightUpdateNotifications(notifications, "U1", 1, old, new, now)
        IN  /\ notifications' = ns
            /\ notifCall' =
                [seq |-> notifCall.seq + 1, userId |-> "U1", id |-> 1,
                 old |-> old, new |-> new, at |-> now,
                 created |-> Len(ns) - Len(notifications),
                 fresh |-> RecentNotifications(notifications, "U1", 1,
                               now - DEDUP_WINDOW_MINUTES * 60) = {},
                 repeat |-> /\ notifCall.seq > 0
                            /\ notifCall.fresh
                            /\ notifCall.old = old
                            /\ notifCall.new = new
                            /\ now - notifCall.at <= DEDUP_WINDOW_MINUTES * 60]
    /\ UNCHANGED <<now, ticks, ops, trackings, jobs, reg, poll, lastPoll, lastCancel,
                   cancelled, histVars, inbox, pureVars>>

NextNotif == NotifTick \/ NotifCall

SpecNotif == Init /\ [][NextNotif]_vars

---------------------------------------------------------------------------
(* The notifications table on its own: rows are created, marked as read    *)
(* and cleaned up while the clock advances.                                *)

MaxMarkIds == 2
InboxClockSteps == {24 * HourSecs, 30 * 24 * HourSecs}
CleanupDays == {1, 30}

\* the id lists of a request: up to MaxMarkIds ids, of rows or of no row
MarkIds(len) == {ids \in SUBSET (1..(len + 1)) : Cardinality(ids) <= MaxMarkIds}

inboxRest == <<trackings, jobs, reg, poll, lastPoll, lastCancel, cancelled, histVars,
               notifCall, pureVars>>

InboxTick ==
    /\ ticks < MaxTicks
    /\ \E d \in InboxClockSteps : now' = now + d
    /\ ticks' = ticks + 1
    /\ UNCHANGED <<ops, notifications, inbox, inboxRest>>

\* createNotification: a notification of some user is stored
InboxCreate ==
    /\ Len(notifications) < MaxNotifications
    /\ \E userId \in Users :
        notifications' = Append(notifications,
            NewNotification(userId, 1, "STATUS_CHANGE", TitleStatus, now))
    /\ UNCHANGED <<now, ticks, ops, inbox, inboxRest>>

\* the controller's markNotificationsAsRead: the service call with the
\* user of the request and the ids of its body, which may name no row
InboxMarkRead ==
    /\ Begin
    /\ \E userId \in Users, ids \in MarkIds(Len(notifications)) :
        LET ns == markNotificationsAsRead(notifications, userId, ids)
        IN  /\ notifications' = ns
            /\ inbox' = [n |-> inbox.n + 1, op |-> "mark", userId |-> userId,
                         ids |-> ids, olderThanDays |-> 0,
                         count |-> Cardinality({i \in 1..Len(ns) :
                                        ns[i] # notifications[i]}),
                         after |-> ns]
    /\ UNCHANGED <<now, ticks, inboxRest>>

\* the cleanup worker's job cleanup-notifications: cleanupOldNotifications
InboxCleanup ==
    /\ Begin
    /\ \E olderThanDays \in CleanupDays :
        LET ns == cleanupOldNotifications(notifications, olderThanDays, now)
        IN  /\ notifications' = ns
            /\ inbox' = [n |-> inbox.n + 1, op |-> "cleanup", userId |-> NULL,
                         ids |-> {}, olderThanDays |-> olderThanDays,
                         count |-> Len(notifications) - Len(ns),
                         after |-> ns]
    /\ UNCHANGED <<now, ticks, inboxRest>>

NextInbox == InboxTick \/ InboxCreate \/ InboxMarkRead \/ InboxCleanup

SpecInbox == Init /\ [][NextInbox]_vars

---------------------------------------------------------------------------
(* The routers of the API (routes/index.ts mounts them under /api/flight   *)
(* and /api/notifications): one request walks the layers of its router in  *)
(* the order they were registered; a middleware answers or calls next, a   *)
(* controller handler answers.  A path is the sequence of its segments     *)
(* below the mount point.                                                  *)

Params == {":flightId"}

\* GET /trackings registered after GET /:flightId
flightRoutesParamFirst ==
    << [method |-> "GET", path |-> <<"by-date">>, stack |-> <<"searchFlightByDate">>],
       [method |-> "GET", path |-> <<":flightId">>, stack |-> <<"getFlightInfo">>],
       [method |-> "GET", path |-> <<"trackings">>,
        stack |-> <<"getUserFlightTrackings">>],
       [method |-> "POST", path |-> <<":flightId", "follow">>,
        stack |-> <<"validateRequest", "registerFlightTracking">>],
       [method |-> "DELETE", path |-> <<":flightId", "follow">>,
        stack |-> <<"validateRequest", "cancelFlightTracking">>] >>

\* flight.routes.ts: router.use(authenticateUser) stands inside the block
\* comment opened on line 13 and closed on line 22, so it registers nothing
flightRoutes ==
    << [method |-> "GET", path |-> <<"by-date">>, stack |-> <<"searchFlightByDate">>],
       [method |-> "GET", path |-> <<"trackings">>,
        stack |-> <<"getUserFlightTrackings">>],
       [method |-> "GET", path |-> <<":flightId">>, stack |-> <<"getFlightInfo">>],
       [method |-> "POST", path |-> <<":flightId", "follow">>,
        stack |-> <<"validateRequest", "registerFlightTracking">>],
       [method |-> "DELETE", path |-> <<":flightId", "follow">>,
        stack |-> <<"validateRequest", "cancelFlightTracking">>] >>

notificationRoutes ==
    << [method |-> "USE", path |-> << >>, stack |-> <<"authenticateUser">>],
       [method |-> "GET", path |-> << >>,
        stack |-> <<"validateRequest", "getUserNotifications">>],
       [method |-> "PUT", path |-> <<"read">>, stack |-> <<"markNotificationsAsRead">>],
       [method |-> "GET", path |-> <<"unread-count">>, stack |-> <<"getUnreadCount">>] >>

apiRoutes == [flight |-> flightRoutes, notifications |-> notificationRoutes]

Middlewares == {"authenticateUser", "validateRequest"}

\* Express: router.use matches a prefix of the path, router.METHOD the
\* method and the whole path, a parameter segment any one segment
LayerMatches(layer, method, path) ==
    IF layer.method = "USE"
        THEN /\ Len(layer.path) <= Len(path)
             /\ \A i \in 1..Len(layer.path) : layer.path[i] = path[i]
        ELSE /\ layer.method = method
             /\ Len(layer.path) = Len(path)
             /\ \A i \in 1..Len(path) :
                    layer.path[i] \in Params \/ layer.path[i] = path[i]

\* An Authorization header is a sequence of pieces of text, empty when the
\* request carries none (!authHeader holds for undefined and for '')
startsWith(header, prefix) == Len(header) >= 1 /\ header[1] = prefix

\* verifyFirebaseToken resolves for the tokens the identity provider issued
ValidTokens == {"tokGood"}
Headers ==
    {<< >>, <<"Basic ", "tokGood">>, <<"Bearer ">>, <<"Bearer ", "tokBad">>,
     <<"Bearer ", "tokGood">>}
Methods == {"GET", "POST", "PUT", "DELETE"}
Paths ==
    {<< >>, <<"by-date">>, <<"trackings">>, <<"F1">>, <<"F1", "follow">>, <<"read">>,
     <<"unread-count">>}
ControllerStatuses == {200, 404, 500}

MaxRequests == 2

httpRest == <<sysVars, notifCall, inbox, fnIn, fnOut, jitterCall, sse, health, oneShot, broker>>

Respond(status, handler) ==
    http' = [http EXCEPT !.pc = "done", !.status = status, !.handler = handler]

\* next(): the next function of the layer, or the layer after it
CallNext(userId) ==
    LET layer == apiRoutes[http.router][http.layer]
    IN  http' = IF http.fn < Len(layer.stack)
                    THEN [http EXCEPT !.pc = "route", !.fn = @ + 1, !.userId = userId]
                    ELSE [http EXCEPT !.pc = "route", !.layer = @ + 1, !.fn = 1,
                                      !.userId = userId]

HttpRequest ==
    /\ http.pc \in {"idle", "done"}
    /\ http.n < MaxRequests
    /\ \E router \in DOMAIN apiRoutes, method \in Methods, path \in Paths,
          authorization \in Headers, bodyValid \in BOOLEAN :
        http' = [pc |-> "route", n |-> http.n + 1, router |-> router,
                 method |-> method, path |-> path, authorization |-> authorization,
                 bodyValid |-> bodyValid, layer |-> 1, fn |-> 1, userId |-> UNDEF,
                 status |-> 0, handler |-> NULL]
    /\ UNCHANGED httpRest

\* authenticateUser up to its await
authenticateUser ==
    IF http.authorization = << >> \/ ~startsWith(http.authorization, "Bearer ")
        THEN Respond(401, NULL)
    ELSE IF Tail(http.authorization) = << >>
        THEN Respond(401, NULL)
    ELSE http' = [http EXCEPT !.pc = "verify"]

validateRequest ==
    IF http.bodyValid THEN CallNext(http.userId) ELSE Respond(400, NULL)

HttpRoute ==
    /\ http.pc = "route"
    /\ LET stack == apiRoutes[http.router]
       IN  IF http.layer > Len(stack)
               THEN Respond(404, NULL)
           ELSE IF ~LayerMatches(stack[http.layer], http.method, http.path)
               THEN http' = [http EXCEPT !.layer = @ + 1]
           ELSE LET f == stack[http.layer].stack[http.fn]
                IN  IF f = "authenticateUser" THEN authenticateUser
                    ELSE IF f = "validateRequest" THEN validateRequest
                    ELSE \E status \in ControllerStatuses : Respond(status, f)
    /\ UNCHANGED httpRest

\* authenticateUser after verifyFirebaseToken has settled
HttpVerify ==
    /\ http.pc = "verify"
    /\ LET idToken == Tail(http.authorization)[1]
       IN  IF idToken \in ValidTokens
               THEN CallNext("U1")
               ELSE Respond(401, NULL)
    /\ UNCHANGED httpRest

NextHttp == HttpRequest \/ HttpRoute \/ HttpVerify

SpecHttp == Init /\ [][NextHttp]_vars

---------------------------------------------------------------------------
(* notificationsSse: one connection to GET /api/notifications/stream, its  *)
(* dedicated Redis subscriber and its heartbeat timer.  A listener runs    *)
(* when its event is emitted; an event emitted while no listener is        *)
(* registered for it is lost.                                              *)

StreamEvents == {"req.close", "req.error", "res.error", "res.close"}
SseUsers == {UNDEF, "U1", "demo-user"}
devUserPatterns == {"demo-user", "test-user", "dev-user", "example-user"}

MaxEvents == 3
MaxBeats == 2

sseRest == <<sysVars, notifCall, inbox, fnIn, fnOut, jitterCall, http, health, oneShot, broker>>

\* cleanup that leaves the subscriber variable set
cleanupKeepingSubscriber(s) ==
    LET a == IF s.heartbeatVar
                 THEN [s EXCEPT !.heartbeatVar = FALSE, !.heartbeat = "cleared"]
                 ELSE s
    IN  IF a.subscriberVar
            THEN [a EXCEPT !.unsubscribes = @ + 1, !.disconnects = @ + 1,
                           !.subscribed = FALSE, !.subscriber = "closed"]
            ELSE a

\* cleanup: heartbeatVar and subscriberVar say whether the closure's
\* variables heartbeat and subscriber are non-null
cleanup(s) ==
    LET a == IF s.heartbeatVar
                 THEN [s EXCEPT !.heartbeatVar = FALSE, !.heartbeat = "cleared"]
                 ELSE s
    IN  IF a.subscriberVar
            THEN [a EXCEPT !.unsubscribes = @ + 1, !.disconnects = @ + 1,
                           !.subscribed = FALSE, !.subscriber = "closed",
                           !.subscriberVar = FALSE]
            ELSE a

\* the handler up to its await: the 401 and 403 answers, the headers,
\* connection.duplicate()
SseConnect ==
    /\ sse.pc = "idle"
    /\ \E userId \in SseUsers, production \in BOOLEAN :
        IF userId = UNDEF
            THEN sse' = [sse EXCEPT !.pc = "rejected", !.status = 401,
                                    !.clientGone = TRUE]
        ELSE IF production /\ userId \in devUserPatterns
            THEN sse' = [sse EXCEPT !.pc = "rejected", !.status = 403,
                                    !.clientGone = TRUE]
        ELSE sse' = [sse EXCEPT !.pc = "subscribing", !.status = 200,
                                !.userId = userId, !.subscriberVar = TRUE,
                                !.subscriber = "open"]
    /\ UNCHANGED sseRest

\* subscribe resolves: the message listener, the heartbeat, the connected
\* event, then the four listeners of the request and the response
SseSubscribed ==
    /\ sse.pc = "subscribing"
    /\ sse' = [sse EXCEPT !.pc = "streaming", !.subscribed = TRUE,
                          !.heartbeatVar = TRUE, !.heartbeat = "running"]
    /\ UNCHANGED sseRest

\* subscribe rejects: the catch block ends the response and returns
SseSubscribeFails ==
    /\ sse.pc = "subscribing"
    /\ sse' = [sse EXCEPT !.pc = "failed", !.clientGone = TRUE]
    /\ UNCHANGED sseRest

\* one of the four events is emitted
SseEvent ==
    /\ sse.pc \in {"subscribing", "streaming"}
    /\ Len(sse.fired) + sse.lost < MaxEvents
    /\ \E e \in StreamEvents :
        LET gone == sse.clientGone \/ e \in {"req.close", "res.close"}
        IN  IF sse.pc = "streaming"
                THEN sse' = [cleanup(sse) EXCEPT !.fired = Append(@, e),
                                                 !.clientGone = gone]
                ELSE sse' = [sse EXCEPT !.lost = @ + 1, !.clientGone = gone]
    /\ UNCHANGED sseRest

\* the interval timer fires
SseHeartbeat ==
    /\ sse.heartbeat = "running"
    /\ sse.beats < MaxBeats
    /\ sse' = [sse EXCEPT !.beats = @ + 1,
                          !.beatsAfterClose = @ + (IF sse.clientGone THEN 1 ELSE 0)]
    /\ UNCHANGED sseRest

NextSse == SseConnect \/ SseSubscribed \/ SseSubscribeFails \/ SseEvent \/ SseHeartbeat

SpecSse == Init /\ [][NextSse]_vars

---------------------------------------------------------------------------
(* GET /health of the two entrypoints, server.ts and server-clean.ts: the  *)
(* handler probes the database, then the broker, while each of the two     *)
(* goes down and comes back on its own.                                    *)

Entrypoints == {"server", "server-clean"}

MaxHealthChecks == 2
MaxOutages == 3

healthRest == <<sysVars, notifCall, inbox, fnIn, fnOut, jitterCall, http, sse, oneShot, broker>>

\* the database goes down or comes back
HealthDbFlips ==
    /\ health.flips < MaxOutages
    /\ health' = [health EXCEPT !.dbUp = ~@, !.flips = @ + 1]
    /\ UNCHANGED healthRest

\* the broker goes down or comes back
HealthRedisFlips ==
    /\ health.flips < MaxOutages
    /\ health' = [health EXCEPT !.redisUp = ~@, !.flips = @ + 1]
    /\ UNCHANGED healthRest

HealthRequest ==
    /\ health.pc \in {"idle", "done"}
    /\ health.n < MaxHealthChecks
    /\ \E entry \in Entrypoints :
        health' = [health EXCEPT !.pc = "db", !.n = @ + 1, !.entry = entry,
                                 !.dbOk = FALSE, !.redisOk = FALSE, !.status = 0]
    /\ UNCHANGED healthRest

\* the answer once the probes have settled: server.ts clears isHealthy in
\* the database catch only, server-clean.ts answers 503 from its one catch
healthStatus(entry, dbOk, redisOk) ==
    IF entry = "server"
        THEN IF dbOk THEN 200 ELSE 503
        ELSE IF dbOk /\ redisOk THEN 200 ELSE 503

\* prisma.$queryRaw`SELECT 1` settles; the one catch of server-clean.ts
\* answers at once
HealthProbeDb ==
    /\ health.pc = "db"
    /\ IF ~health.dbUp /\ health.entry = "server-clean"
           THEN health' = [health EXCEPT !.pc = "done",
                               !.status = healthStatus(health.entry, FALSE, FALSE)]
           ELSE health' = [health EXCEPT !.pc = "redis", !.dbOk = health.dbUp]
    /\ UNCHANGED healthRest

\* connection.ping() settles and the handler answers
HealthProbeRedis ==
    /\ health.pc = "redis"
    /\ health' = [health EXCEPT !.pc = "done", !.redisOk = health.redisUp,
                      !.status = healthStatus(health.entry, health.dbOk, health.redisUp)]
    /\ UNCHANGED healthRest

NextHealth ==
    \/ HealthDbFlips
    \/ HealthRedisFlips
    \/ HealthRequest
    \/ HealthProbeDb
    \/ HealthProbeRedis

SpecHealth == Init /\ [][NextHealth]_vars

---------------------------------------------------------------------------
(* The poll cycle of one tracking over many attempts: the tracking as      *)
(* POST /:flightId/follow leaves it, then polls by the worker and by the   *)
(* force-poll route, each answered by the provider with data or with a     *)
(* failure, while the clock advances.                                      *)

MaxPolls == 7
RetryDepartures == {3 * HourSecs, 27 * HourSecs}

\* the state once one registration through the controller has completed
InitRetry ==
    /\ now = 0
    /\ ticks = 0
    /\ ops = 0
    /\ \E dep \in RetryDepartures :
        LET interval == calculatePollingInterval(dep, 0)
        IN  /\ \E nextPollAt \in calculateNextPollDate(interval, 0, 0) :
                trackings = <<NewTracking(1, "U1", NULL, "F1", dep, interval,
                                          nextPollAt)>>
            /\ notifications =
                IF dep <= 6 * HourSecs
                    THEN createUpcomingFlightNotification(<< >>, "U1", 1, 0)
                    ELSE << >>
            /\ \E nextPollAt \in calculateNextPollDate(interval, 0, 0) :
                jobs = SetToBag({[trackingId |-> 1, runAt |-> nextPollAt]})
    /\ reg = [c \in RegCallers |-> IdleReg]
    /\ poll = [w \in Pollers |-> IdlePoll]
    /\ lastPoll = NoPoll
    /\ lastCancel = NoCancel
    /\ cancelled = {}
    /\ prevReg = NoReg
    /\ lastReg = NoReg
    /\ notifCall = NoNotifCall
    /\ inbox = NoInboxCall
    /\ http = NoHttp
    /\ sse = NoSse
    /\ health = NoHealth
    /\ fnIn = NoFnIn
    /\ fnOut = NoFnOut
    /\ jitterCall = NoJitterCall
    /\ oneShot = NoOneShot
    /\ broker = NoBroker

\* the worker takes a job whose delay has passed
RetryJobStart(w) ==
    /\ poll[w].pc = "idle"
    /\ lastPoll.n < MaxPolls
    /\ UNCHANGED ops
    /\ \E j \in BagToSet(jobs) :
        /\ j.runAt <= now
        /\ PollBegin(w, j.trackingId, FALSE, jobs (-) SetToBag({j}))

\* the debug route runs the poll of the tracking
RetryForceStart(w) ==
    /\ poll[w].pc = "idle"
    /\ lastPoll.n < MaxPolls
    /\ UNCHANGED ops
    /\ PollBegin(w, 1, TRUE, jobs)

NextRetry ==
    \/ Tick
    \/ \E w \in Pollers : RetryJobStart(w)
    \/ \E w \in Pollers : RetryForceStart(w)
    \/ \E w \in Pollers : PollRespond(w)

SpecRetry == InitRetry /\ [][NextRetry]_vars

---------------------------------------------------------------------------
(* The managed queue left to itself: the worker of JobManager and the      *)
(* clock, no request from outside.  A delayed job becomes due when its     *)
(* delay has passed; the worker may pick it up late.                       *)

WorkerLateness == {0, 60, 15 * 60}

\* the delay of a pending job passes
ManagedDelayPasses ==
    /\ \E j \in BagToSet(jobs), late \in WorkerLateness :
        /\ j.runAt > now
        /\ now' = j.runAt + late
    /\ UNCHANGED <<ticks, ops, trackings, notifications, jobs, reg, poll,
                   lastPoll, lastCancel, cancelled, histVars, notifCall,
                   inbox, pureVars>>

NextManaged ==
    \/ ManagedDelayPasses
    \/ \E w \in Pollers : RetryJobStart(w)
    \/ \E w \in Pollers : PollRespond(w)

SpecManagedLive ==
    /\ InitRetry
    /\ [][NextManaged]_vars
    /\ WF_vars(ManagedDelayPasses)
    /\ WF_vars(\E w \in Pollers : RetryJobStart(w))
    /\ WF_vars(\E w \in Pollers : PollRespond(w))

---------------------------------------------------------------------------
(* The poll cycle with calls that throw: a database call, a notification   *)
(* call or the provider call rejects, and the catch block of               *)
(* processFlightPolling reads the row again and calls handlePollingError,  *)
(* which succeeds or rejects in its turn.  The cycle is also run for an id *)
(* of no row, as a job left behind by cleanupInactiveTrackings would.      *)

MaxFaultPolls == 3

\* the catch block cannot write: its findUnique or its update rejects, so
\* processFlightPolling rejects and its caller schedules nothing
PollRejects(w, id, forced, due, oldStatus, before, js) ==
    /\ trackings' = trackings
    /\ jobs' = js
    /\ poll' = [poll EXCEPT ![w] = IdlePoll]
    /\ lastPoll' = [n |-> lastPoll.n + 1, id |-> id, forced |-> forced, due |-> due,
                    outcome |-> "rejected", oldStatus |-> oldStatus,
                    newStatus |-> NULL, before |-> before, row |-> findUnique(id)]

\* the catch block: findUnique, then handlePollingError on the row it read
PollCatch(w, id, forced, due, oldStatus, before, js) ==
    \E recovered \in BOOLEAN :
        IF ~recovered
            THEN PollRejects(w, id, forced, due, oldStatus, before, js)
        ELSE IF findUnique(id) = NoTracking
            THEN PollReturn(w, id, forced, due, "caught", oldStatus, NULL, before,
                            js, trackings)
        ELSE \E nextPollAt \in handlePollingErrorDates(trackings[id], now) :
                PollReturn(w, id, forced, due, "rescheduled", oldStatus, NULL,
                    before, js,
                    [trackings EXCEPT ![id] =
                        handlePollingError(@, trackings[id], nextPollAt, now)])

\* a call throws before the provider is asked: the first findUnique or the
\* upcoming notification (nothing written), or stopFlightTracking after
\* that notification
PollBeginThrows(w, id, forced, js) ==
    LET tracking == findUnique(id)
        secsUntilDeparture == tracking.scheduledDeparture - now
        wasOver6h == tracking.pollInterval = 6 * 60 * 60
                        \/ tracking.pollInterval = 1 * 60 * 60
        upcoming == /\ ~pollSkips(tracking)
                    /\ wasOver6h
                    /\ secsUntilDeparture <= 6 * HourSecs
                    /\ secsUntilDeparture > 0
        ns == IF upcoming
                  THEN createUpcomingFlightNotification(notifications,
                           tracking.createdByUserId, id, now)
                  ELSE notifications
        stops == /\ ~pollSkips(tracking)
                 /\ shouldStopPolling(tracking.scheduledDeparture, tracking.status,
                                      now).shouldStop
    IN  /\ \E at \in {"findUnique", "stopFlightTracking"} :
            /\ at = "stopFlightTracking" => stops
            /\ notifications' = IF at = "stopFlightTracking" THEN ns ELSE notifications
        /\ Len(notifications') <= MaxNotifications
        /\ PollCatch(w, id, forced, tracking.isActive /\ tracking.nextPollAt <= now,
                     tracking.status, tracking.nextPollAt, js)
        /\ UNCHANGED restPoll

\* processFlightPolling is run for some id, a row's or none's
FaultForceStart(w) ==
    /\ poll[w].pc = "idle"
    /\ lastPoll.n < MaxFaultPolls
    /\ UNCHANGED ops
    /\ \E id \in 1..(Len(trackings) + 1) :
        \/ PollBegin(w, id, id \in TrackingIds, jobs)
        \/ PollBeginThrows(w, id, id \in TrackingIds, jobs)

\* the worker takes a job whose delay has passed
FaultJobStart(w) ==
    /\ poll[w].pc = "idle"
    /\ lastPoll.n < MaxFaultPolls
    /\ UNCHANGED ops
    /\ \E j \in BagToSet(jobs) :
        /\ j.runAt <= now
        /\ \/ PollBegin(w, j.trackingId, FALSE, jobs (-) SetToBag({j}))
           \/ PollBeginThrows(w, j.trackingId, FALSE, jobs (-) SetToBag({j}))

\* a call throws once the provider has been asked: getFlightData or the
\* update of handlePollingError (nothing written), a notification call
\* (none or all of the notifications written) or updateFlightTracking
PollRespondThrows(w) ==
    LET p == poll[w]
        oldData == [status |-> p.snap.status,
                    gate |-> IF Truthy(p.snap.gate) THEN p.snap.gate ELSE UNDEF,
                    terminal |-> IF Truthy(p.snap.terminal)
                                     THEN p.snap.terminal ELSE UNDEF,
                    delay |-> p.snap.delay]
    IN  /\ p.pc = "provider"
        /\ UNCHANGED <<ops, restPoll>>
        /\ \E data \in ProviderData, written \in BOOLEAN :
            LET changes == detectFlightChanges(p.snap, data)
                ns == IF p.hsecs <= 6 * HourSecs /\ p.hsecs >= 0 - 2 * HourSecs
                          THEN createFlightUpdateNotifications(notifications,
                                   p.snap.createdByUserId, p.id, oldData, data, now)
                      ELSE IF changes # << >>
                          THEN createNotificationsForChanges(notifications,
                                   p.snap.createdByUserId, p.id, changes, now)
                      ELSE notifications
            IN  /\ Len(ns) <= MaxNotifications
                /\ notifications' = IF written THEN ns ELSE notifications
        /\ PollCatch(w, p.id, p.forced, p.due, p.snap.status, p.snap.nextPollAt, jobs)

NextFault ==
    \/ Tick
    \/ \E w \in Pollers : FaultForceStart(w)
    \/ \E w \in Pollers : FaultJobStart(w)
    \/ \E w \in Pollers : PollRespond(w)
    \/ \E w \in Pollers : PollRespondThrows(w)

SpecFault == InitRetry /\ [][NextFault]_vars

---------------------------------------------------------------------------
(* The upcoming-flight notification of one tracking: poll cycles of two    *)
(* callers that may overlap (the queue's worker runs up to 5 jobs at once, *)
(* and the debug route runs beside it), each split between the findFirst   *)
(* and the create of createUpcomingFlightNotification.                     *)

MaxWindowPolls == 3
WindowPollers == {"w1", "w2"}
WindowDepartures == {9 * HourSecs, 27 * HourSecs}

\* the state once one registration through the controller has completed
InitWindow ==
    /\ now = 0
    /\ ticks = 0
    /\ ops = 0
    /\ \E dep \in WindowDepartures :
        LET interval == calculatePollingInterval(dep, 0)
        IN  /\ \E nextPollAt \in calculateNextPollDate(interval, 0, 0) :
                trackings = <<NewTracking(1, "U1", NULL, "F1", dep, interval,
                                          nextPollAt)>>
            /\ \E nextPollAt \in calculateNextPollDate(interval, 0, 0) :
                jobs = SetToBag({[trackingId |-> 1, runAt |-> nextPollAt]})
    /\ notifications = << >>
    /\ reg = [c \in RegCallers |-> IdleReg]
    /\ poll = [w \in WindowPollers |-> IdlePoll]
    /\ lastPoll = NoPoll
    /\ lastCancel = NoCancel
    /\ cancelled = {}
    /\ prevReg = NoReg
    /\ lastReg = NoReg
    /\ notifCall = NoNotifCall
    /\ inbox = NoInboxCall
    /\ http = NoHttp
    /\ sse = NoSse
    /\ health = NoHealth
    /\ fnIn = NoFnIn
    /\ fnOut = NoFnOut
    /\ jitterCall = NoJitterCall
    /\ oneShot = NoOneShot
    /\ broker = NoBroker

\* processFlightPolling up to the findFirst of
\* createUpcomingFlightNotification: when the threshold was crossed and no
\* notification is found the create is still to come, else the cycle goes
\* on as in PollBegin
WindowPollBegin(w, id, forced, js) ==
    LET tracking == findUnique(id)
        secsUntilDeparture == tracking.scheduledDeparture - now
        wasOver6h == tracking.pollInterval = 6 * 60 * 60
                        \/ tracking.pollInterval = 1 * 60 * 60
        isNowUnder6h == secsUntilDeparture <= 6 * HourSecs
        existing == \E i \in 1..Len(notifications) :
                        /\ notifications[i].userId = tracking.createdByUserId
                        /\ notifications[i].flightTrackingId = id
                        /\ notifications[i].title = TitleUpcoming
    IN  IF ~pollSkips(tracking) /\ wasOver6h /\ isNowUnder6h
                /\ secsUntilDeparture > 0 /\ ~existing
            THEN /\ poll' = [poll EXCEPT ![w] =
                         [pc |-> "upcoming", id |-> id, forced |-> forced,
                          snap |-> tracking, due |-> (tracking.nextPollAt <= now),
                          hsecs |-> secsUntilDeparture]]
                 /\ jobs' = js
                 /\ UNCHANGED <<trackings, notifications, lastPoll, restPoll>>
            ELSE PollBegin(w, id, forced, js)

\* the worker takes a job whose delay has passed
WindowJobStart(w) ==
    /\ poll[w].pc = "idle"
    /\ lastPoll.n + Cardinality({v \in WindowPollers : poll[v].pc # "idle"})
            < MaxWindowPolls
    /\ UNCHANGED ops
    /\ \E j \in BagToSet(jobs) :
        /\ j.runAt <= now
        /\ WindowPollBegin(w, j.trackingId, FALSE, jobs (-) SetToBag({j}))

\* the debug route runs a poll of the tracking
WindowForceStart(w) ==
    /\ poll[w].pc = "idle"
    /\ lastPoll.n + Cardinality({v \in WindowPollers : poll[v].pc # "idle"})
            < MaxWindowPolls
    /\ UNCHANGED ops
    /\ \E id \in TrackingIds : WindowPollBegin(w, id, TRUE, jobs)

\* prisma.notification.create of createUpcomingFlightNotification, then
\* shouldStopPolling
WindowUpcomingCreate(w) ==
    LET p == poll[w]
        stopCheck == shouldStopPolling(p.snap.scheduledDeparture, p.snap.status, now)
    IN  /\ p.pc = "upcoming"
        /\ Len(notifications) < MaxNotifications
        /\ notifications' = Append(notifications,
               NewNotification(p.snap.createdByUserId, p.id, "STATUS_CHANGE",
                               TitleUpcoming, now))
        /\ IF stopCheck.shouldStop
               THEN PollReturn(w, p.id, p.forced, p.due, "stopped", p.snap.status,
                               NULL, p.snap.nextPollAt, jobs,
                               [trackings EXCEPT
                                   ![p.id] = stopFlightTracking(@, stopCheck.reason)])
               ELSE /\ poll' = [poll EXCEPT ![w].pc = "provider"]
                    /\ UNCHANGED <<trackings, jobs, lastPoll>>
        /\ UNCHANGED <<ops, restPoll>>

NextWindow ==
    \/ Tick
    \/ \E w \in WindowPollers : WindowJobStart(w)
    \/ \E w \in WindowPollers : WindowForceStart(w)
    \/ \E w \in WindowPollers : WindowUpcomingCreate(w)
    \/ \E w \in WindowPollers : PollRespond(w)

SpecWindow == InitWindow /\ [][NextWindow]_vars

\* DELETE /trackings/:trackingId by the owner of an active tracking, beside
\* the poll cycles
OverlapCancel ==
    /\ \E trackingId \in TrackingIds :
        LET userId == trackings[trackingId].createdByUserId
        IN  /\ cancelMatches(userId, trackingId)
            /\ trackings' = [trackings EXCEPT ![trackingId] =
                                [@ EXCEPT !.isActive = FALSE,
                                          !.stopReason = "USER_CANCELLED"]]
            /\ jobs' = cancelJobsForTracking(jobs, trackingId)
            /\ lastCancel' = [n |-> lastCancel.n + 1, userId |-> userId,
                              id |-> trackingId, result |-> TRUE]
            /\ cancelled' = cancelled \cup {trackingId}
    /\ UNCHANGED <<ops, restCancel>>

NextOverlap == NextWindow \/ OverlapCancel

SpecOverlap == InitWindow /\ [][NextOverlap]_vars

---------------------------------------------------------------------------
(* The one-shot design: the flight-poll queue, scheduleNext and pollWorker *)
(* of infra/redis.ts, fed by the test endpoint of the server. A job's      *)
(* trackingId is the number standing for its test-tracking string.         *)

MaxChainJobs == 4
MaxChains == 2
MaxChainTicks == 3
MaxAddFailures == 2

\* attempts of the job options
JobAttempts == 5
\* backoff: { type: "exponential", delay: 30_000 }, in seconds
JobBackoffSecs == 30

ChainHours == {1, 8}
ChainClockSteps == {5 * 60, 4 * HourSecs}
\* Math.random() in hundredths: below 0.05, below 0.1, below 0.2, above
RandomDraws == {3, 7, 15, 50}

\* a worker that reschedules whatever the checks say
pollWorkerDecisionNeverStops(scheduledAt, t, random) == "continue"

\* the checks of pollWorker: more than 2 hours after the scheduled time,
\* then the simulated status once within 1 hour of it (the CANCELLED branch
\* follows the test random < 0.1 and is never taken)
pollWorkerDecision(scheduledAt, t, random) ==
    IF t - scheduledAt > 2 * HourSecs
        THEN "stop-time"
    ELSE IF t - scheduledAt > 0 - HourSecs /\ random < 10
        THEN "stop-status"
    ELSE "continue"

chainRest == <<ops, trackings, notifications, reg, poll, lastPoll, lastCancel,
               cancelled, histVars, notifCall, inbox, fnIn, fnOut, jitterCall,
               http, sse, health, broker>>

ChainTick ==
    /\ ticks < MaxChainTicks
    /\ \E d \in ChainClockSteps : now' = now + d
    /\ ticks' = ticks + 1
    /\ UNCHANGED <<jobs, oneShot, chainRest>>

\* POST /test/flight-tracking: scheduleNext for a mock tracking
ChainRequest ==
    /\ oneShot.nextId <= MaxChainJobs
    /\ Cardinality({j.chain : j \in oneShot.delayed} \cup oneShot.ended) < MaxChains
    /\ \E hours \in ChainHours :
        \E delay \in nextDelaySecs(now, now + hours * HourSecs) :
            oneShot' = [oneShot EXCEPT
                !.nextId = @ + 1,
                !.delayed = @ \cup {[id |-> oneShot.nextId,
                                    chain |-> oneShot.nextId,
                                    trackingId |-> now,
                                    scheduledAt |-> now + hours * HourSecs,
                                    runAt |-> now + delay,
                                    attemptsMade |-> 0]}]
    /\ UNCHANGED <<now, ticks, jobs, chainRest>>

\* the tracking of a chain is stopped or cancelled: the row is set inactive
\* and cancelJobsForTracking removes its jobs from the flight-polling queue
ChainDeactivate ==
    /\ \E j \in oneShot.delayed :
        /\ j.trackingId \notin oneShot.inactive
        /\ oneShot' = [oneShot EXCEPT !.inactive = @ \cup {j.trackingId}]
        /\ jobs' = cancelJobsForTracking(jobs, j.trackingId)
    /\ UNCHANGED <<now, ticks, chainRest>>

\* pollWorker processes a job whose delay has passed: it returns on a stop,
\* else awaits scheduleNext, and a throw of pollQueue.add fails the job,
\* which the queue retries after its backoff until the attempts are used
ChainProcessWith(maxJobs, j, random, addFails) ==
        LET decision == pollWorkerDecision(j.scheduledAt, now, random)
            run == [n |-> oneShot.last.n + 1, job |-> j.id, chain |-> j.chain,
                    trackingId |-> j.trackingId, scheduledAt |-> j.scheduledAt,
                    at |-> now, decision |-> decision]
        IN  /\ j.runAt <= now
            /\ IF decision # "continue"
                   THEN /\ ~addFails
                        /\ oneShot' = [oneShot EXCEPT
                               !.delayed = @ \ {j},
                               !.ended = @ \cup {j.chain},
                               !.last = run]
               ELSE IF addFails
                   THEN /\ oneShot.failures < MaxAddFailures
                        /\ oneShot' = [oneShot EXCEPT
                               !.failures = @ + 1,
                               !.delayed =
                                   IF j.attemptsMade + 1 < JobAttempts
                                       THEN (@ \ {j}) \cup
                                            {[j EXCEPT
                                                !.attemptsMade = @ + 1,
                                                !.runAt = now + JobBackoffSecs
                                                    * Pow(2, j.attemptsMade)]}
                                       ELSE @ \ {j},
                               !.ended = IF j.attemptsMade + 1 < JobAttempts
                                             THEN @ ELSE @ \cup {j.chain},
                               !.last = [run EXCEPT !.decision = "threw"]]
               ELSE /\ oneShot.nextId <= maxJobs
                    /\ \E delay \in nextDelaySecs(now, j.scheduledAt) :
                        oneShot' = [oneShot EXCEPT
                            !.nextId = @ + 1,
                            !.delayed = (@ \ {j}) \cup
                                {[id |-> oneShot.nextId, chain |-> j.chain,
                                  trackingId |-> j.trackingId,
                                  scheduledAt |-> j.scheduledAt,
                                  runAt |-> now + delay,
                                  attemptsMade |-> 0]},
                            !.last = [run EXCEPT !.decision = "rescheduled"]]

ChainProcess ==
    /\ \E j \in oneShot.delayed, random \in RandomDraws, addFails \in BOOLEAN :
        ChainProcessWith(MaxChainJobs, j, random, addFails)
    /\ UNCHANGED <<now, ticks, jobs, chainRest>>

NextChain == ChainTick \/ ChainRequest \/ ChainDeactivate \/ ChainProcess

SpecChain == Init /\ [][NextChain]_vars

(* The same queue while time passes and the worker keeps taking the jobs   *)
(* that are due: the clock advances as long as it can still change what a  *)
(* pending job does, and the cap on job ids is above what the chains use.  *)

MaxLiveJobs == 10
ChainLiveSteps == {4 * HourSecs}

ChainTickLive ==
    /\ \E j \in oneShot.delayed :
            now <= j.scheduledAt + 2 * HourSecs \/ j.runAt > now
    /\ \E d \in ChainLiveSteps : now' = now + d
    /\ UNCHANGED <<ticks, jobs, oneShot, chainRest>>

ChainProcessLive ==
    /\ \E j \in oneShot.delayed, random \in RandomDraws, addFails \in BOOLEAN :
        ChainProcessWith(MaxLiveJobs, j, random, addFails)
    /\ UNCHANGED <<now, ticks, jobs, chainRest>>

NextChainLive == ChainTickLive \/ ChainRequest \/ ChainProcessLive

\* the clock advances, and the worker processes a job that is due
SpecChainLive ==
    /\ Init
    /\ [][NextChainLive]_vars
    /\ WF_vars(ChainTickLive)
    /\ WF_vars(ChainProcessLive)

---------------------------------------------------------------------------
(* Delivery of a created notification: the row, the message published on   *)
(* the user's channel, the push, and the SSE streams that forward what     *)
(* their subscriber receives.                                              *)

MaxBrokerRows == 2
BrokerUsers == {"A", "B"}
Streams == {"s1", "s2"}

\* JSON.stringify of an object given as its keys in order and their values:
\* a Date becomes its ISO string, an undefined property is left out
JsonValue(v) == IF v.kind = "date" THEN [v EXCEPT !.kind = "string"] ELSE v

RECURSIVE StringifyFrom(_, _)
StringifyFrom(obj, i) ==
    IF i > Len(obj.keys)
        THEN << >>
    ELSE IF obj.val[obj.keys[i]].kind = "undefined"
        THEN StringifyFrom(obj, i + 1)
    ELSE <<[key |-> obj.keys[i], value |-> JsonValue(obj.val[obj.keys[i]])]>>
            \o StringifyFrom(obj, i + 1)

JsonStringify(obj) == StringifyFrom(obj, 1)

\* JSON.parse of a text: the object with the keys in the order of the text
JsonParse(text) ==
    [keys |-> [i \in 1..Len(text) |-> text[i].key],
     val |-> [k \in {text[i].key : i \in 1..Len(text)} |->
                 (CHOOSE p \in {text[i] : i \in 1..Len(text)} : p.key = k).value]]

\* one channel for all the users
channelNameShared(userId) == <<"notify:user:">>

\* `notify:user:${userId}`
channelName(userId) == <<"notify:user:", userId>>

\* the object publishNotificationToSSE serialises; data is the row's JSON
\* string or null
BrokerMessage(row) ==
    [keys |-> <<"id", "type", "title", "message", "meta", "createdAt",
                "flightTrackingId">>,
     val |-> [id |-> [kind |-> "number", v |-> row.id],
              type |-> [kind |-> "string", v |-> 1],
              title |-> [kind |-> "string", v |-> 2],
              message |-> [kind |-> "string", v |-> 3],
              meta |-> row.data,
              createdAt |-> [kind |-> "date", v |-> row.createdAt],
              flightTrackingId |-> [kind |-> "number", v |-> 1]]]

RowData == {[kind |-> "string", v |-> 4], [kind |-> "null", v |-> 0]}

\* a creation whose publish and push are awaited and rethrow
deliveryOutcomeAwaited(brokerUp, pushUp) ==
    IF brokerUp /\ pushUp THEN "returned" ELSE "threw"

\* what the creating call does once the row exists: publishNotificationToSSE
\* and sendPushNotification are not awaited, each has a catch attached and a
\* try/catch of its own
deliveryOutcome(brokerUp, pushUp) == "returned"

brokerRest == <<sysVars, notifCall, inbox, fnIn, fnOut, jitterCall, http, sse,
                health, oneShot>>

\* createFlightChangeNotification once its look-up found nothing: the row,
\* the message to the subscribers of the user's channel when the broker
\* takes it, the push when the push service takes it
BrokerCreate ==
    /\ Len(broker.rows) < MaxBrokerRows
    /\ \E userId \in BrokerUsers, data \in RowData, brokerUp \in BOOLEAN,
          pushUp \in BOOLEAN :
        LET row == [id |-> Len(broker.rows) + 1, userId |-> userId,
                    data |-> data, createdAt |-> Len(broker.rows)]
            text == JsonStringify(BrokerMessage(row))
            outcome == deliveryOutcome(brokerUp, pushUp)
        IN  broker' = [broker EXCEPT
                !.rows = Append(@, row),
                !.published = IF brokerUp
                                  THEN @ \cup {[userId |-> userId, text |-> text]}
                                  ELSE @,
                !.inflight = IF brokerUp
                                 THEN @ \cup
                                      {[stream |-> s,
                                        channel |-> channelName(userId),
                                        text |-> text]
                                       : s \in {x \in Streams :
                                            /\ broker.streams[x].pc = "streaming"
                                            /\ channelName(broker.streams[x].userId)
                                                  = channelName(userId)}}
                                 ELSE @,
                !.pushes = IF pushUp THEN @ + 1 ELSE @,
                !.last = [n |-> broker.last.n + 1, id |-> row.id,
                          brokerUp |-> brokerUp, pushUp |-> pushUp,
                          outcome |-> outcome,
                          cycle |-> IF outcome = "returned"
                                        THEN "success" ELSE "caught"]]
    /\ UNCHANGED brokerRest

\* notificationsSse up to its await: the headers, connection.duplicate()
StreamOpen ==
    /\ \E s \in Streams, userId \in BrokerUsers :
        /\ broker.streams[s].pc = "idle"
        /\ broker' = [broker EXCEPT !.streams[s] =
                          [pc |-> "subscribing", userId |-> userId,
                           written |-> << >>]]
    /\ UNCHANGED brokerRest

\* subscribe resolves: the message listener is attached and the connected
\* event written
StreamSubscribed ==
    /\ \E s \in Streams :
        /\ broker.streams[s].pc = "subscribing"
        /\ broker' = [broker EXCEPT
                          !.streams[s].pc = "streaming",
                          !.streams[s].written =
                              <<[event |-> "connected", data |-> << >>]>>]
    /\ UNCHANGED brokerRest

\* subscribe rejects: the response ends
StreamSubscribeFails ==
    /\ \E s \in Streams :
        /\ broker.streams[s].pc = "subscribing"
        /\ broker' = [broker EXCEPT !.streams[s].pc = "failed"]
    /\ UNCHANGED brokerRest

\* the message listener of a stream runs on a message of its subscriber
StreamMessage ==
    /\ \E m \in broker.inflight :
        LET st == broker.streams[m.stream]
        IN  broker' = [broker EXCEPT
                !.inflight = @ \ {m},
                !.streams[m.stream].written =
                    IF m.channel = channelName(st.userId)
                        THEN Append(@, [event |-> "notification",
                                        data |-> JsonStringify(JsonParse(m.text))])
                        ELSE @]
    /\ UNCHANGED brokerRest

NextBroker ==
    BrokerCreate \/ StreamOpen \/ StreamSubscribed \/ StreamSubscribeFails
        \/ StreamMessage

SpecBroker == Init /\ [][NextBroker]_vars

---------------------------------------------------------------------------
(* Properties *)

\* C1: two successive registerFlightTracking calls that do not overlap and
\* name the same flightId and tripId return the same tracking row, and the
\* table has as many rows after the second as after the first.
C1_SequentialRegistrationIdempotent ==
    (/\ prevReg.id # 0
     /\ lastReg.id # 0
     /\ prevReg.flightId = lastReg.flightId
     /\ prevReg.tripId = lastReg.tripId)
        => (lastReg.id = prevReg.id /\ lastReg.count = prevReg.count)

\* two calls for the same flight and trip, by different users, have returned
C1_Witness ==
    /\ prevReg.id # 0
    /\ lastReg.id # 0
    /\ prevReg.flightId = lastReg.flightId
    /\ prevReg.tripId = lastReg.tripId
    /\ prevReg.userId # lastReg.userId
    /\ lastReg.id = prevReg.id

\* C2: under any interleaving of registerFlightTracking calls there is at
\* most one active tracking row per (flightId, tripId) pair.
C2_AtMostOneActivePerFlightTrip ==
    \A i, j \in TrackingIds :
        (/\ i # j
         /\ trackings[i].isActive
         /\ trackings[j].isActive
         /\ trackings[i].flightId = trackings[j].flightId)
            => trackings[i].tripId # trackings[j].tripId

ActiveNextPollAtSet ==
    \A i \in TrackingIds : trackings[i].isActive => trackings[i].nextPollAt # NoTime

PollAttempted == lastPoll.outcome = "success" \/ lastPoll.outcome = "failure"

\* C3: while a tracking is active its nextPollAt is set, and every completed
\* poll attempt (successful or failed at the provider) that began at or
\* after the tracking's nextPollAt leaves nextPollAt strictly greater than it
\* was when the attempt began.
C3_DuePollAdvancesNextPollAt ==
    /\ ActiveNextPollAtSet
    /\ (PollAttempted /\ lastPoll.due) => lastPoll.row.nextPollAt > lastPoll.before

\* a job of the queue has polled a due tracking with success
C3_Witness ==
    /\ lastPoll.outcome = "success"
    /\ lastPoll.due
    /\ ~lastPoll.forced
    /\ lastPoll.row.nextPollAt > lastPoll.before

\* C3 as stated: every completed poll attempt, a forced one before the due
\* time included, leaves nextPollAt strictly greater than it was.
C3_EveryPollAdvancesNextPollAt ==
    /\ ActiveNextPollAtSet
    /\ PollAttempted => lastPoll.row.nextPollAt > lastPoll.before

\* C4: a poll of an active tracking whose stored status is not CANCELLED and
\* whose provider result is CANCELLED ends with the tracking inactive,
\* stopReason CANCELLED, and a notification of the change for the owner.
C4_CancelledPollStopsTracking ==
    (/\ lastPoll.outcome = "success"
     /\ lastPoll.oldStatus # "CANCELLED"
     /\ lastPoll.newStatus = "CANCELLED")
        => /\ ~lastPoll.row.isActive
           /\ lastPoll.row.stopReason = "CANCELLED"
           /\ \E k \in 1..Len(notifications) :
                /\ notifications[k].flightTrackingId = lastPoll.id
                /\ notifications[k].userId = lastPoll.row.createdByUserId
                /\ notifications[k].type \in {"FLIGHT_CANCELLED", "STATUS_CHANGE"}

CancelStep == lastCancel'.n = lastCancel.n + 1

\* C5: a cancel by a user who does not own the tracking returns false,
\* leaves the row as it was and removes no job from the queue.
C5_CancelByNonOwner ==
    [][(/\ CancelStep
        /\ lastCancel'.id \in TrackingIds
        /\ trackings[lastCancel'.id].createdByUserId # lastCancel'.userId)
            => (/\ lastCancel'.result = FALSE
                /\ trackings' = trackings
                /\ jobs' = jobs)]_vars

\* a user has tried to cancel another user's active tracking, which still
\* has its job in the queue
C5_Witness ==
    /\ lastCancel.n > 0
    /\ lastCancel.id \in TrackingIds
    /\ trackings[lastCancel.id].createdByUserId # lastCancel.userId
    /\ trackings[lastCancel.id].isActive
    /\ ~lastCancel.result
    /\ \E j \in BagToSet(jobs) : j.trackingId = lastCancel.id

\* C6: a cancel returns true exactly when a row with that id, owned by that
\* user and active, exists; the row is then inactive with stopReason
\* USER_CANCELLED; a later cancel of the same tracking returns false.
C6_CancelResult ==
    [][CancelStep =>
        (/\ lastCancel'.result =
                (/\ lastCancel'.id \in TrackingIds
                 /\ trackings[lastCancel'.id].createdByUserId = lastCancel'.userId
                 /\ trackings[lastCancel'.id].isActive)
         /\ lastCancel'.result =>
                (/\ ~trackings'[lastCancel'.id].isActive
                 /\ trackings'[lastCancel'.id].stopReason = "USER_CANCELLED")
         /\ lastCancel'.id \in cancelled => ~lastCancel'.result)]_vars

\* the owner has cancelled a tracking and then tried to cancel it again
C6_Witness ==
    /\ lastCancel.n >= 2
    /\ lastCancel.id \in cancelled
    /\ trackings[lastCancel.id].createdByUserId = lastCancel.userId
    /\ trackings[lastCancel.id].stopReason = "USER_CANCELLED"
    /\ ~lastCancel.result

\* the fields that differ between two snapshots and count for a notification
ChangedFields(old, new, needValue) ==
    (IF old.status # new.status THEN 1 ELSE 0)
    + (IF old.gate # new.gate /\ (needValue => new.gate # UNDEF) THEN 1 ELSE 0)
    + (IF old.terminal # new.terminal /\ (needValue => new.terminal # UNDEF)
           THEN 1 ELSE 0)
    + (IF new.delay - old.delay >= 5 \/ old.delay - new.delay >= 5 THEN 1 ELSE 0)

\* C7: a first call of createFlightUpdateNotifications (none for the user and
\* tracking in the 10 minutes before) creates one notification per differing
\* field, a gate or terminal counting only when its new value is given; a
\* second call within 10 minutes with the same arguments creates none.
C7_UpdateNotificationsOncePerChange ==
    /\ (notifCall.seq > 0 /\ notifCall.fresh)
            => notifCall.created = ChangedFields(notifCall.old, notifCall.new, TRUE)
    /\ notifCall.repeat => notifCall.created = 0

\* a call has repeated a first call that created two or more notifications
C7_Witness ==
    /\ notifCall.repeat
    /\ notifCall.created = 0
    /\ now - notifCall.at = DEDUP_WINDOW_MINUTES * 60
    /\ Len(notifications) >= 2
    /\ ChangedFields(notifCall.old, notifCall.new, TRUE) >= 2

\* C7 as stated: one notification per field that differs, whatever the new
\* value.
C7_OnePerDifferingField ==
    /\ (notifCall.seq > 0 /\ notifCall.fresh)
            => notifCall.created = ChangedFields(notifCall.old, notifCall.new, FALSE)
    /\ notifCall.repeat => notifCall.created = 0

\* C8: calculatePollingInterval is 21600 from 168 hours to departure on, 3600
\* from 24 hours on, 1800 from 6 hours on, and 300 below, past departures
\* included.
C8_PollingIntervalTiers ==
    fnOut.done =>
        LET secs == fnIn.dep - fnIn.t
        IN  fnOut.interval =
                IF secs >= 168 * 3600 THEN 21600
                ELSE IF secs >= 24 * 3600 THEN 3600
                ELSE IF secs >= 6 * 3600 THEN 1800
                ELSE 300

\* the interval exactly 24 hours before the departure
C8_Witness ==
    /\ fnOut.done
    /\ fnIn.dep - fnIn.t = 24 * 3600
    /\ fnOut.interval = 3600

\* C9: shouldStopPolling stops with the status as reason when the status is
\* DEPARTED or CANCELLED, whatever the time; else it stops with reason
\* TIMEOUT exactly when now is 2 hours or more past the departure; else it
\* continues.
C9_ShouldStopPolling ==
    fnOut.done =>
        IF fnIn.status \in {"DEPARTED", "CANCELLED"}
            THEN fnOut.stop.shouldStop /\ fnOut.stop.reason = fnIn.status
        ELSE IF fnIn.t - fnIn.dep >= 2 * 3600
            THEN fnOut.stop.shouldStop /\ fnOut.stop.reason = "TIMEOUT"
        ELSE ~fnOut.stop.shouldStop

\* a departed flight more than 2 hours past its departure
C9_Witness ==
    /\ fnOut.done
    /\ fnIn.status = "DEPARTED"
    /\ fnIn.t - fnIn.dep > 2 * 3600
    /\ fnOut.stop.reason = "DEPARTED"

\* C10: calculateBackoffDelay is min(base * 2^retryCount, 8 * base), does not
\* decrease with retryCount, never exceeds 8 * base, and calculateNextPollDate
\* with retryCount > 0 is now plus exactly that delay.
C10_BackoffDelay ==
    fnOut.done =>
        /\ fnOut.backoff = Min(fnIn.base * (2 ^ fnIn.retryCount), 8 * fnIn.base)
        /\ fnOut.backoff <= fnOut.backoffNext
        /\ fnOut.backoff <= 8 * fnIn.base
        /\ fnIn.retryCount > 0 => fnOut.nextPoll = {fnIn.t + fnOut.backoff}

\* the fifth retry at a base of 300 seconds: the cap of 2400, not 9600
C10_Witness ==
    /\ fnOut.done
    /\ fnIn.retryCount = 5
    /\ fnIn.base = 300
    /\ fnOut.backoff = 2400
    /\ fnOut.nextPoll = {fnIn.t + 2400}


\* C11: every result of applyJitter(interval, p) is a whole number of seconds
\* no further than half a second outside [interval * (1 - p),
\* interval * (1 + p)], and inside it whenever interval * p is whole.
C11_JitterWithinRoundedRange ==
    jitterCall.done =>
        \A r \in jitterCall.results :
            LET low == jitterCall.interval * (100 - jitterCall.jitterPercentage)
                high == jitterCall.interval * (100 + jitterCall.jitterPercentage)
                whole == (jitterCall.interval * jitterCall.jitterPercentage) % 100 = 0
            IN  /\ low - 50 <= 100 * r
                /\ 100 * r <= high + 50
                /\ whole => (low <= 100 * r /\ 100 * r <= high)

\* applyJitter(3600, 0.10) can return both 3240 and 3960
C11_Witness ==
    /\ jitterCall.done
    /\ jitterCall.interval = 3600
    /\ jitterCall.jitterPercentage = 10
    /\ 3240 \in jitterCall.results
    /\ 3960 \in jitterCall.results
    /\ \A r \in jitterCall.results : 3240 <= r /\ r <= 3960

\* C11 as stated: every result lies within [interval * (1 - p),
\* interval * (1 + p)], whatever the interval and p.
C11_JitterWithinRange ==
    jitterCall.done =>
        \A r \in jitterCall.results :
            /\ jitterCall.interval * (100 - jitterCall.jitterPercentage) <= 100 * r
            /\ 100 * r <= jitterCall.interval * (100 + jitterCall.jitterPercentage)


\* C12: a tracking, when created, has status SCHEDULED, delay 0, retryCount
\* 0, isActive true, the pollInterval of the tier of its time to departure,
\* and nextPollAt between now + 0.9 * pollInterval and now + 1.1 *
\* pollInterval.
C12_NewTrackingFields ==
    [][Len(trackings') > Len(trackings) =>
        LET row == trackings'[Len(trackings')]
            secs == row.scheduledDeparture - now
        IN  /\ Len(trackings') = Len(trackings) + 1
            /\ row.status = "SCHEDULED"
            /\ row.delay = 0
            /\ row.retryCount = 0
            /\ row.isActive
            /\ row.pollInterval =
                    IF secs >= 168 * 3600 THEN 21600
                    ELSE IF secs >= 24 * 3600 THEN 3600
                    ELSE IF secs >= 6 * 3600 THEN 1800
                    ELSE 300
            /\ 10 * (row.nextPollAt - now) >= 9 * row.pollInterval
            /\ 10 * (row.nextPollAt - now) <= 11 * row.pollInterval]_vars

\* a tracking of a flight 27 hours ahead has just been created, at time 0
C12_Witness ==
    /\ now = 0
    /\ \E i \in TrackingIds :
        /\ trackings[i].lastPolledAt = NoTime
        /\ trackings[i].scheduledDeparture = 27 * 3600
        /\ trackings[i].pollInterval = 3600
        /\ trackings[i].nextPollAt = 3240
        /\ trackings[i].isActive


InboxStep(op) == inbox'.n = inbox.n + 1 /\ inbox'.op = op

\* C13: cleanupOldNotifications(d) deletes exactly the notifications that
\* are read and were created before now minus d days, and returns their
\* count; the unread ones and the newer ones stay.
C13_CleanupDeletesOldRead ==
    [][InboxStep("cleanup") =>
        LET cutoff == now - inbox'.olderThanDays * 86400
            Gone(n) == n.isRead /\ n.createdAt < cutoff
            Kept(n) == ~n.isRead \/ n.createdAt >= cutoff
        IN  /\ notifications' = SelectSeq(notifications, Kept)
            /\ inbox'.count = Len(SelectSeq(notifications, Gone))]_vars

\* cleanupOldNotifications(30) has deleted one row and left an unread row
\* older than 30 days and a read row newer than 30 days
C13_Witness ==
    /\ inbox.op = "cleanup"
    /\ inbox.olderThanDays = 30
    /\ inbox.count = 1
    /\ inbox.after = notifications
    /\ \E i, j \in 1..Len(notifications) :
        /\ ~notifications[i].isRead
        /\ notifications[i].createdAt < now - 30 * 86400
        /\ notifications[j].isRead
        /\ notifications[j].createdAt >= now - 30 * 86400

\* C14: markNotificationsAsRead(userId, ids) sets isRead on exactly the
\* listed notifications of the user that are unread, returns how many it
\* changed and leaves every other row as it was; the same call made again
\* returns 0.
C14_MarkReadExactly ==
    [][InboxStep("mark") =>
        LET Hit(i) == /\ i \in inbox'.ids
                      /\ notifications[i].userId = inbox'.userId
                      /\ ~notifications[i].isRead
        IN  /\ Len(notifications') = Len(notifications)
            /\ \A i \in 1..Len(notifications) :
                notifications'[i] =
                    IF Hit(i) THEN [notifications[i] EXCEPT !.isRead = TRUE]
                    ELSE notifications[i]
            /\ inbox'.count = Cardinality({i \in 1..Len(notifications) : Hit(i)})
            /\ (/\ inbox.op = "mark"
                /\ inbox.userId = inbox'.userId
                /\ inbox.ids = inbox'.ids
                /\ inbox.after = notifications) => inbox'.count = 0]_vars

\* a call has repeated the call before it, which had marked a row, and has
\* passed over a listed unread row of another user
C14_Witness ==
    /\ inbox.op = "mark"
    /\ inbox.count = 0
    /\ inbox.n >= 2
    /\ inbox.after = notifications
    /\ \E i, j \in inbox.ids \cap (1..Len(notifications)) :
        /\ notifications[i].userId # inbox.userId
        /\ ~notifications[i].isRead
        /\ notifications[j].userId = inbox.userId
        /\ notifications[j].isRead


Authenticated(header) ==
    /\ startsWith(header, "Bearer ")
    /\ Len(header) = 2
    /\ header[2] \in ValidTokens

\* C15: a request to a flight or notification route with no Authorization
\* header, or with a Bearer token that fails verification, is answered 401
\* and reaches no controller handler.
C15_UnauthenticatedGets401 ==
    (http.pc = "done" /\ ~Authenticated(http.authorization))
        => (http.status = 401 /\ http.handler = NULL)

\* C16: GET /api/flight/trackings is never handled by the /:flightId
\* handler; the controller handler it reaches is the trackings listing.
C16_TrackingsRouteBeforeParam ==
    (/\ http.pc = "done"
     /\ http.router = "flight"
     /\ http.method = "GET"
     /\ http.path = <<"trackings">>)
        => (/\ http.handler # "getFlightInfo"
            /\ http.handler # NULL => http.handler = "getUserFlightTrackings")

\* GET /api/flight/trackings has been answered by the trackings listing
C16_Witness ==
    /\ http.pc = "done"
    /\ http.router = "flight"
    /\ http.method = "GET"
    /\ http.path = <<"trackings">>
    /\ http.handler = "getUserFlightTrackings"
    /\ http.status = 200


\* C17: for one SSE connection, however many of the events request close,
\* request error, response error and response close reach their listeners
\* and in whatever order, unsubscribe and disconnect are each executed
\* exactly once and the heartbeat timer is cleared.
C17_CleanupExactlyOnce ==
    /\ sse.unsubscribes <= 1
    /\ sse.disconnects <= 1
    /\ Len(sse.fired) > 0 =>
        /\ sse.unsubscribes = 1
        /\ sse.disconnects = 1
        /\ sse.heartbeat = "cleared"
        /\ sse.subscriber = "closed"

\* three events of at least two kinds have reached their listeners
C17_Witness ==
    /\ Len(sse.fired) = MaxEvents
    /\ sse.fired[1] = "req.error"
    /\ sse.fired[2] = "res.close"
    /\ sse.fired[3] = "req.close"
    /\ sse.unsubscribes = 1
    /\ sse.disconnects = 1
    /\ sse.heartbeat = "cleared"

\* C18: once the client has disconnected or the setup has failed, and the
\* handler is past its await, no subscriber connection is open and no
\* heartbeat timer runs: neither outlives the client stream.
C18_NothingOutlivesStream ==
    (sse.clientGone /\ sse.pc \in {"streaming", "failed"})
        => (sse.subscriber # "open" /\ sse.heartbeat # "running")


\* C19: /health answers 200 only when both the database probe and the
\* broker ping succeeded, and 503 otherwise.
C19_HealthyOnlyWhenBothUp ==
    health.pc = "done" =>
        health.status = (IF health.dbOk /\ health.redisOk THEN 200 ELSE 503)


\* the provider has answered the poll of w in this step
Answered(w) == poll[w].pc = "provider" /\ lastPoll'.n = lastPoll.n + 1

\* C20: the retryCount of a tracking is always within 0..5.  A provider
\* failure adds one to the count the cycle read and sets nextPollAt to now
\* plus the backoff delay of the stored pollInterval; the failure that would
\* make it 6 sets it to 0 and takes pollInterval and nextPollAt from the
\* normal tier; a successful poll sets it to 0; a failure leaves the
\* tracking active.
C20_RetryCountBounded ==
    /\ [](\A i \in 1..Len(trackings) : trackings[i].retryCount \in 0..5)
    /\ [][\A w \in Pollers : Answered(w) =>
            LET tracking == poll[w].snap
                before == trackings[poll[w].id]
                after == trackings'[poll[w].id]
                tier == calculatePollingInterval(tracking.scheduledDeparture, now)
            IN  /\ lastPoll'.outcome = "success" => after.retryCount = 0
                /\ (lastPoll'.outcome = "failure" /\ tracking.retryCount < 5) =>
                    /\ after.retryCount = tracking.retryCount + 1
                    /\ after.pollInterval = before.pollInterval
                    /\ after.nextPollAt = now +
                           Min(before.pollInterval * Pow(2, tracking.retryCount + 1),
                               before.pollInterval * 8)
                /\ (lastPoll'.outcome = "failure" /\ tracking.retryCount = 5) =>
                    /\ after.retryCount = 0
                    /\ after.pollInterval = tier
                    /\ 10 * (after.nextPollAt - now) \in (9 * tier)..(11 * tier)
                /\ lastPoll'.outcome = "failure" =>
                    /\ before.isActive
                    /\ after.isActive]_vars

\* the sixth failure in a row has reset the count and moved the tracking to
\* the tier of the time now left to its departure
C20_Witness ==
    /\ lastPoll.outcome = "failure"
    /\ lastPoll.n >= 6
    /\ lastPoll.row.retryCount = 0
    /\ lastPoll.row.isActive
    /\ lastPoll.row.pollInterval =
           calculatePollingInterval(lastPoll.row.scheduledDeparture, now)
    /\ lastPoll.row.pollInterval #
           calculatePollingInterval(lastPoll.row.scheduledDeparture, 0)


\* a poll cycle has ended in this step
CycleEnds == lastPoll'.n = lastPoll.n + 1

\* C21: when a step of a poll cycle on an active tracking throws and the
\* row can still be read and written, the cycle ends with the tracking's
\* nextPollAt later than the start of the cycle.
C21_ThrownCycleReschedules ==
    [][\A w \in Pollers :
        LET started == IF poll[w].pc = "provider"
                           THEN poll[w].snap.scheduledDeparture - poll[w].hsecs
                           ELSE now
            wasActive == IF poll[w].pc = "provider"
                             THEN poll[w].snap.isActive
                             ELSE findUnique(lastPoll'.id).isActive
        IN  (CycleEnds /\ lastPoll'.outcome = "rescheduled" /\ wasActive)
                => trackings'[lastPoll'.id].nextPollAt > started]_vars

\* a cycle that was due has thrown and left the tracking active with a
\* later nextPollAt and one more retry
C21_Witness ==
    /\ lastPoll.outcome = "rescheduled"
    /\ lastPoll.due
    /\ lastPoll.before <= now
    /\ lastPoll.row.isActive
    /\ lastPoll.row.retryCount = 1
    /\ lastPoll.row.nextPollAt > now

\* C22: processFlightPolling never rejects, also when the reschedule of its
\* error handler fails.
C22_PollNeverRejects ==
    lastPoll.outcome # "rejected"

C23_StopBeforeProvider ==
    [][\A w \in Pollers :
        LET Stops(t) == \/ t.status \in {"DEPARTED", "CANCELLED"}
                        \/ now - t.scheduledDeparture >= 2 * 3600
            Reason(t) == IF t.status \in {"DEPARTED", "CANCELLED"}
                             THEN t.status ELSE "TIMEOUT"
        IN  /\ (poll[w].pc = "idle" /\ poll'[w].pc = "provider")
                => ~Stops(trackings[poll'[w].id])
            /\ (/\ poll[w].pc = "idle"
                /\ CycleEnds
                /\ findUnique(lastPoll'.id).isActive
                /\ Stops(findUnique(lastPoll'.id)))
                => (/\ lastPoll'.outcome = "stopped"
                    /\ ~trackings'[lastPoll'.id].isActive
                    /\ trackings'[lastPoll'.id].stopReason =
                           Reason(trackings[lastPoll'.id]))]_vars

\* a cycle has found the stored status CANCELLED and stopped the tracking
C23_Witness ==
    /\ lastPoll.outcome = "stopped"
    /\ lastPoll.oldStatus = "CANCELLED"
    /\ ~lastPoll.row.isActive
    /\ lastPoll.row.stopReason = "CANCELLED"
    /\ \A w \in Pollers : poll[w].pc = "idle"


\* C25: once registerFlightTracking with a tripId and participants has
\* returned, every participant has a tracking row of that flight and trip
\* with the participant as creator, and the row returned is the caller's.
C25_OneRowPerParticipant ==
    \A q \in Requests :
        (/\ lastReg.userId = q.userId
         /\ lastReg.flightId = q.flightId
         /\ lastReg.tripId = q.tripId
         /\ q.tripId # NULL
         /\ Len(q.participants) > 0)
            => /\ \A k \in 1..Len(q.participants) :
                    \E i \in TrackingIds :
                        /\ trackings[i].flightId = q.flightId
                        /\ trackings[i].tripId = q.tripId
                        /\ trackings[i].createdByUserId = q.participants[k]
               /\ trackings[lastReg.id].createdByUserId = q.userId


UpcomingOf(ns, userId, id) ==
    {k \in 1..Len(ns) : /\ ns[k].userId = userId
                        /\ ns[k].flightTrackingId = id
                        /\ ns[k].title = TitleUpcoming}

\* C26: once a poll cycle of an active tracking that began with
\* 0 < hours until departure <= 6 has run to its end, an upcoming-flight
\* notification exists for the tracking, whatever pollInterval was stored.
C26_UpcomingOnceInWindow ==
    [][\A w \in WindowPollers :
        (/\ poll[w].pc = "provider"
         /\ poll'[w].pc = "idle"
         /\ poll[w].hsecs > 0
         /\ poll[w].hsecs <= 6 * 3600)
            => UpcomingOf(notifications', poll[w].snap.createdByUserId,
                          poll[w].id) # {}]_vars

\* C27: at most one upcoming-flight notification exists per user and
\* tracking.
C27_AtMostOneUpcoming ==
    \A u \in Users, id \in TrackingIds :
        Cardinality(UpcomingOf(notifications, u, id)) <= 1


UpdateTitles == {TitleStatus, TitleGate, TitleTerminal, TitleDelayUp, TitleDelayDown}

LegacyTitles ==
    {generateNotificationTitle([type |-> ty, oldValue |-> 0, newValue |-> d])
        : ty \in {"STATUS_CHANGE", "GATE_CHANGE", "TERMINAL_CHANGE",
                  "DELAY_CHANGE", "FLIGHT_CANCELLED"},
          d \in {0 - 1, 1}}

\* the notifications a step appends
Added == SubSeq(notifications', Len(notifications) + 1, Len(notifications'))

Enqueued == {j \in oneShot'.delayed : j.id >= oneShot.nextId}

C30_OneSuccessorPerRun ==
    /\ [](\A c \in 1..MaxChainJobs :
            Cardinality({j \in oneShot.delayed : j.chain = c}) <= 1)
    /\ [][oneShot'.last.n = oneShot.last.n + 1 =>
            /\ Cardinality(Enqueued) <= 1
            /\ \A j \in Enqueued : j.chain = oneShot'.last.chain
            /\ now - oneShot'.last.scheduledAt > 2 * 3600 => Enqueued = {}
            /\ oneShot'.last.decision # "rescheduled" => Enqueued = {}
            /\ oneShot'.last.decision = "rescheduled" => Cardinality(Enqueued) = 1]_vars

\* a run rescheduled its chain, a later one stopped it, and a job of another
\* chain is still pending
C30_Witness ==
    /\ oneShot.last.decision \in {"stop-time", "stop-status"}
    /\ oneShot.last.job # oneShot.last.chain
    /\ oneShot.delayed # {}


ChainPending(c) == \E j \in oneShot.delayed : j.chain = c

\* C31: every chain of polling jobs of the one-shot design ends: whenever a
\* job of a chain is pending, eventually none is; and a run more than 2
\* hours after the scheduled time, or one whose status check stops, leaves
\* no job of its chain pending.
C31_ChainTerminates ==
    /\ \A c \in 1..MaxLiveJobs : ChainPending(c) ~> ~ChainPending(c)
    /\ []((oneShot.last.decision = "stop-status"
                \/ (oneShot.last.n > 0
                    /\ oneShot.last.at > oneShot.last.scheduledAt + 2 * 3600))
            => ~ChainPending(oneShot.last.chain))

\* a chain that was rescheduled ended on the 2 hour limit
C31_Witness ==
    /\ oneShot.last.decision = "stop-time"
    /\ oneShot.last.job # oneShot.last.chain
    /\ ~ChainPending(oneShot.last.chain)
    /\ oneShot.last.at > oneShot.last.scheduledAt + 2 * 3600


\* C32: for every time to departure the delay of nextDelayMs lies within
\* 10% of the interval calculatePollingInterval gives (6 h from 168 h on,
\* 1 h from 24 h on, 30 min from 6 h on, else 5 min) and is at least one
\* minute.
C32_DelayMirrorsInterval ==
    fnOut.done =>
        LET u == fnIn.dep - fnIn.t
            tier == IF u >= 168 * 3600 THEN 6 * 3600
                    ELSE IF u >= 24 * 3600 THEN 3600
                    ELSE IF u >= 6 * 3600 THEN 30 * 60
                    ELSE 5 * 60
        IN  /\ fnOut.interval = tier
            /\ fnOut.delay # {}
            /\ \A d \in fnOut.delay :
                /\ 9 * tier <= 10 * d
                /\ 10 * d <= 11 * tier
                /\ d * 1000 >= 60000

\* the delay at exactly 6 hours before the departure reaches both ends of
\* the 30 minute tier
C32_Witness ==
    /\ fnOut.done
    /\ fnIn.dep - fnIn.t = 6 * 3600
    /\ fnOut.delay = {27 * 60, 33 * 60}


\* C33: when a poll cycle ends in success or failure the row it leaves is
\* the row that cycle would have written had it run alone on the row it
\* read, also when another cycle of the same tracking, which did not stop
\* the tracking, overlapped it.
C33_LastWriterWins ==
    [][\A w \in WindowPollers :
        (/\ poll[w].pc = "provider"
         /\ poll'[w].pc = "idle"
         /\ trackings[poll[w].id].isActive
         /\ lastPoll'.outcome \in {"success", "failure"})
            => LET p == poll[w]
                   after == trackings'[p.id]
               IN  \E response \in ProviderResponses :
                       after = IF response.success
                                   THEN updateFlightTracking(p.snap, response.data,
                                            after.nextPollAt, now)
                                   ELSE handlePollingError(p.snap, p.snap,
                                            after.nextPollAt, now)]_vars


\* C34: a stopReason that has been set is never changed by a later step.
C34_StopReasonSetOnce ==
    [][\A id \in TrackingIds :
        trackings[id].stopReason # NULL
            => trackings'[id].stopReason = trackings[id].stopReason]_vars


C36_OnlyOwnMessages ==
    \A s \in Streams :
        LET w == broker.streams[s].written
        IN  \A i \in 1..Len(w) :
                w[i].event = "notification"
                    => /\ i > 1
                       /\ w[1].event = "connected"
                       /\ \E p \in broker.published :
                            /\ p.userId = broker.streams[s].userId
                            /\ p.text = w[i].data
                       /\ \A j \in 1..Len(w) : w[j] = w[i] => j = i

\* a stream of A has forwarded a message while a stream of B is open
C36_Witness ==
    /\ broker.streams["s1"].pc = "streaming"
    /\ broker.streams["s1"].userId = "A"
    /\ broker.streams["s2"].pc = "streaming"
    /\ broker.streams["s2"].userId = "B"
    /\ Len(broker.streams["s1"].written) = 2
    /\ Len(broker.streams["s2"].written) = 1
    /\ broker.inflight = {}

---------------------------------------------------------------------------
\* C37: in the managed-queue design, once a poll cycle of a tracking has
\* completed and left a future nextPollAt, the tracking is polled again or
\* becomes inactive, even when it is the only tracking.
C37_KeepsBeingPolled ==
    \A k \in 1..(MaxPolls - 1) :
        (/\ lastPoll.n = k
         /\ lastPoll.outcome \in {"success", "failure"}
         /\ trackings[1].isActive
         /\ trackings[1].nextPollAt > now)
            ~> (lastPoll.n > k \/ ~trackings[1].isActive)

---------------------------------------------------------------------------
\* C38: at most one waiting or delayed polling job exists per tracking at
\* any time, across registrations, the sweep after each job and forced
\* polls.
PendingJobsOf(id) ==
    BagCardinality([j \in {k \in BagToSet(jobs) : k.trackingId = id} |-> jobs[j]])

C38_OnePendingJobPerTracking ==
    \A id \in 1..Len(trackings) : PendingJobsOf(id) <= 1

---------------------------------------------------------------------------
\* C39: inactive is absorbing: no step sets isActive of a row back to true,
\* and a registerFlightTracking whose findFirst runs when the pair
\* (flightId, tripId) has an inactive row creates no row, leaves the table
\* as it is and returns an inactive row of the pair.
NoReactivation ==
    \A i \in 1..Len(trackings) :
        ~trackings[i].isActive => ~trackings'[i].isActive

ReRegistrationReturnsInactive ==
    \A c \in RegCallers :
        (/\ reg[c].pc = "find"
         /\ reg'[c] # reg[c]
         /\ \E i \in FindByFlightTrip(reg[c].flightId, reg[c].tripId) :
                ~trackings[i].isActive)
            => /\ trackings' = trackings
               /\ reg'[c].pc # "create"
               /\ reg'[c].pc = "idle" =>
                    /\ lastReg'.id \in FindByFlightTrip(reg[c].flightId,
                                                        reg[c].tripId)
                    /\ ~trackings[lastReg'.id].isActive

C39_InactiveIsAbsorbing ==
    [][NoReactivation /\ ReRegistrationReturnsInactive]_vars

---------------------------------------------------------------------------
\* C40: in every reachable state a tracking has a non-null stopReason if
\* and only if its isActive is false.
C40_StopReasonIffInactive ==
    \A i \in 1..Len(trackings) :
        (trackings[i].stopReason # NULL) <=> ~trackings[i].isActive

\* a poll cycle has stopped a tracking
C40_Witness ==
    /\ lastPoll.outcome = "stopped"
    /\ lastPoll.id \in 1..Len(trackings)
    /\ ~trackings[lastPoll.id].isActive
    /\ trackings[lastPoll.id].stopReason \in {"DEPARTED", "CANCELLED", "TIMEOUT"}

=============================================================================
